---------------------------- MODULE Spec2Model ----------------------------
(***************************************************************************)
(* Identification-and-reconciliation pipeline of tmdb-async-movies.        *)
(*                                                                         *)
(* Three generations of the pipeline are modelled, each with its own       *)
(* specification over the variables it uses:                               *)
(*   SpecMP   src/src/movieparse/main.py         class Movieparse          *)
(*   SpecOld  src/movieparse/main.py             class movieparse          *)
(*   SpecTAM  src/src/tmdb_async_movies/main.py  class TmdbAsyncMovies     *)
(* Strings are sequences of one-character strings, so that the regular     *)
(* patterns and the URL encodings are computed character by character.     *)
(***************************************************************************)
EXTENDS Integers, Sequences, FiniteSets, Bags, TLC

(***************************************************************************)
(* Bounds of the model.                                                    *)
(***************************************************************************)
\* Number of pipeline runs against one output location.
MaxRuns == 2
\* Longest movielist / query list handed to one run.
MaxList == 2

(***************************************************************************)
(* default_codes                                                           *)
(***************************************************************************)
DEFAULT == 0
NO_RESULT == -1
NO_EXTRACT == -2
BAD_RESPONSE == -3
default_codes == {DEFAULT, NO_RESULT, NO_EXTRACT, BAD_RESPONSE}

(***************************************************************************)
(* Characters and strings.                                                 *)
(***************************************************************************)
Digits == {"0", "1", "2", "3", "4", "5", "6", "7", "8", "9"}
Whitespace == {" "}

\* a ++ b ++ ... for the strings of a sequence of strings
RECURSIVE Concat(_)
Concat(ss) == IF ss = <<>> THEN <<>> ELSE Head(ss) \o Concat(Tail(ss))

\* The strings used as inputs.
S_A == <<"1", "9", "9", "9", " ", "A">>
S_B == <<"2", "0", "0", "3", " ", "B">>
S_Blank == <<"2", "0", "0", "0", " ", " ">>
S_NoYear == <<"A">>
S_A2 == <<"2", "0", "0", "3", " ", "A">>
S_Amp == <<"1", "9", "9", "9", " ", "A", "&", "B">>
S_Dash == <<"1", "9", "9", "9", " ", "-", " ", "A">>
S_Tail == <<"A", " ", "1", "9", "9", "9">>

(***************************************************************************)
(* get_parsing_patterns: the three regular patterns, matched on a whole    *)
(* string.  Extract returns the named groups, or matched = FALSE.          *)
(***************************************************************************)
NoMatch == [matched |-> FALSE, disk_year |-> <<>>, disk_title |-> <<>>]

\* 0: ^(?P<disk_year>\d{4})\s{1}(?P<disk_title>.+)$
Pattern0(s) ==
    IF /\ Len(s) >= 6
       /\ \A i \in 1..4 : s[i] \in Digits
       /\ s[5] \in Whitespace
    THEN [matched |-> TRUE, disk_year |-> SubSeq(s, 1, 4),
          disk_title |-> SubSeq(s, 6, Len(s))]
    ELSE NoMatch

\* 1: ^(?P<disk_year>\d{4})\s-\s(?P<disk_title>.+)$
Pattern1(s) ==
    IF /\ Len(s) >= 8
       /\ \A i \in 1..4 : s[i] \in Digits
       /\ s[5] \in Whitespace
       /\ s[6] = "-"
       /\ s[7] \in Whitespace
    THEN [matched |-> TRUE, disk_year |-> SubSeq(s, 1, 4),
          disk_title |-> SubSeq(s, 8, Len(s))]
    ELSE NoMatch

\* 2: ^(?P<disk_title>.+)\s(?P<disk_year>\d{4})$
Pattern2(s) ==
    IF /\ Len(s) >= 6
       /\ \A i \in (Len(s) - 3)..Len(s) : s[i] \in Digits
       /\ s[Len(s) - 4] \in Whitespace
    THEN [matched |-> TRUE, disk_year |-> SubSeq(s, Len(s) - 3, Len(s)),
          disk_title |-> SubSeq(s, 1, Len(s) - 5)]
    ELSE NoMatch

\* Movieparse.get_parsing_patterns(): keys 0, 1, 2
PatternKeys == {0, 1, 2}
Extract(style, s) ==
    CASE style = 0 -> Pattern0(s)
      [] style = 1 -> Pattern1(s)
      [] style = 2 -> Pattern2(s)
      [] OTHER -> NoMatch


(***************************************************************************)
(* Integers and their decimal strings: int("1999"), str(1999).             *)
(***************************************************************************)
DigitVal(c) ==
    CASE c = "0" -> 0 [] c = "1" -> 1 [] c = "2" -> 2 [] c = "3" -> 3
      [] c = "4" -> 4 [] c = "5" -> 5 [] c = "6" -> 6 [] c = "7" -> 7
      [] c = "8" -> 8 [] c = "9" -> 9

DigitChar(d) == CHOOSE c \in Digits : DigitVal(c) = d

RECURSIVE StrToInt(_)
StrToInt(s) ==
    IF s = <<>> THEN 0
    ELSE StrToInt(SubSeq(s, 1, Len(s) - 1)) * 10 + DigitVal(s[Len(s)])

RECURSIVE IntToStr(_)
IntToStr(n) ==
    IF n < 0 THEN <<"-">> \o IntToStr(-n)
    ELSE IF n < 10 THEN <<DigitChar(n)>>
    ELSE IntToStr(n \div 10) \o <<DigitChar(n % 10)>>

(***************************************************************************)
(* The catalog (the external HTTP collaborator), as a fixed fixture.       *)
(* A search request carries a query (the title) and, for an exact search,  *)
(* a year; NoYear stands for the absent year parameter.  A search          *)
(* response either has a "results" list or lacks the key (an error body,   *)
(* as the catalog sends for a blank query).                                *)
(***************************************************************************)
NoYear == <<>>
IdA == 603
IdB == 604
IdAmp == 605
IdManual == 777
\* an id the catalog does not know
IdGone == 888

Blank(title) == \A i \in 1..Len(title) : title[i] \in Whitespace

CatalogSearch(query, year) ==
    IF Blank(query)
    THEN [status |-> 422, has_results |-> FALSE, results |-> <<>>]
    ELSE IF query = <<"A">> /\ year \in {NoYear, <<"1", "9", "9", "9">>}
    THEN [status |-> 200, has_results |-> TRUE, results |-> <<IdA>>]
    ELSE IF query = <<"B">> /\ year = NoYear
    THEN [status |-> 200, has_results |-> TRUE, results |-> <<IdB>>]
    ELSE IF query = <<"A", "&", "B">>
    THEN [status |-> 200, has_results |-> TRUE, results |-> <<IdAmp>>]
    ELSE [status |-> 200, has_results |-> TRUE, results |-> <<>>]

\* The cardinalities of the nested arrays of the document of a catalog ID;
\* an unknown ID is answered with a non-success status.
CatalogMovie(tmdb_id) ==
    CASE tmdb_id = IdA ->
           [status |-> 200, id |-> IdA, cast |-> 2, crew |-> 1,
            belongs_to_collection |-> TRUE, genres |-> 2,
            production_companies |-> 1, production_countries |-> 1,
            spoken_languages |-> 1]
      [] tmdb_id = IdB ->
           [status |-> 200, id |-> IdB, cast |-> 1, crew |-> 0,
            belongs_to_collection |-> FALSE, genres |-> 1,
            production_companies |-> 0, production_countries |-> 1,
            spoken_languages |-> 1]
      [] tmdb_id = IdAmp ->
           [status |-> 200, id |-> IdAmp, cast |-> 1, crew |-> 1,
            belongs_to_collection |-> TRUE, genres |-> 0,
            production_companies |-> 1, production_countries |-> 0,
            spoken_languages |-> 1]
      [] tmdb_id = IdManual ->
           [status |-> 200, id |-> IdManual, cast |-> 1, crew |-> 1,
            belongs_to_collection |-> FALSE, genres |-> 1,
            production_companies |-> 1, production_countries |-> 1,
            spoken_languages |-> 1]
      [] OTHER ->
           [status |-> 404, id |-> tmdb_id, cast |-> 0, crew |-> 0,
            belongs_to_collection |-> FALSE, genres |-> 0,
            production_companies |-> 0, production_countries |-> 0,
            spoken_languages |-> 0]

(***************************************************************************)
(* State.                                                                  *)
(***************************************************************************)
VARIABLES
    \* the output location: file name -> [exists, rows]; the rows of
    \* mapping.csv are a sequence, those of a metadata table a bag (the
    \* order of the rows of a metadata table is not modelled)
    disk,
    \* number of pipeline instances constructed on the output location
    runs,
    \* position of the current instance in its run
    pc,
    \* message of the exception the last call raised, or "none"
    error,
    \* Movieparse attributes
    STRICT, PARSING_STYLE, cached_mapping, mapping, tables,
    metadata_lookup_ids,
    \* _get_ids_async / _get_metadata: the rows of canon_ext, the requests
    \* in submission order, the indices of those still in flight and the
    \* indices in completion order (as_completed)
    canon_ext, tasks, pending, responses,
    \* every request dispatched by the current instance, in order
    sent,
    \* the constructor arguments used on this output location, the folder
    \* names its movielists are drawn from, and the movielist of the current
    \* run
    args, library, movielist,
    \* which class the behaviour runs
    program,
    \* movieparse (src/movieparse/main.py) attributes; cached_metadata_ids
    \* is the class attribute, shared by the instances of one process
    FORCE_ID_UPDATE, FORCE_METADATA_UPDATE, cached_metadata_ids,
    \* TmdbAsyncMovies (src/src/tmdb_async_movies/main.py) attributes, the
    \* queries of the current generic_parse and its first_pass_df
    naming_convention, backup_call, canon_input, queries, first_pass_df,
    \* the output_path argument of the write() called since the last
    \* generic_parse: "none", "exists" or "missing"
    output_path,
    \* the frame search_ids returned to a direct caller
    search_results

varsMP == <<disk, runs, pc, error, STRICT, PARSING_STYLE, cached_mapping,
            mapping, tables, metadata_lookup_ids, canon_ext, tasks, pending,
            responses, sent, args, library, movielist>>
varsMP_but_pc_error ==
    <<disk, runs, STRICT, PARSING_STYLE, cached_mapping, mapping, tables,
      metadata_lookup_ids, canon_ext, tasks, pending, responses, sent, args,
      library, movielist>>
varsOld == <<FORCE_ID_UPDATE, FORCE_METADATA_UPDATE, cached_metadata_ids>>
varsTAM == <<naming_convention, backup_call, canon_input, queries,
             first_pass_df, output_path, search_results>>

\* _metadata(): the metadata tables in iteration order
TableNames == <<"cast", "collection", "crew", "genres",
                "production_companies", "production_countries",
                "spoken_languages", "details">>
TableSet == {TableNames[i] : i \in 1..Len(TableNames)}
FileNames == TableSet \cup {"mapping"}

NoFile == [exists |-> FALSE, rows |-> <<>>]
EmptyTables == [t \in TableSet |-> EmptyBag]

\* The movielists handed to parse_movielist.
PipelineInputs == {S_A, S_B, S_Blank, S_NoYear}

RECURSIVE ListsUpTo(_, _)
ListsUpTo(S, n) ==
    IF n = 0 THEN {<<>>}
    ELSE LET shorter == ListsUpTo(S, n - 1)
         IN shorter \cup {Append(l, x) : l \in shorter, x \in S}

\* The folder names one behaviour draws its movielists from: one or two of
\* the inputs above, or one of two pairs of names in other conventions (a
\* name with the year last, a name with a dash after the year).
Libraries ==
    {{x, y} : x, y \in PipelineInputs} \cup {{S_A, S_Tail}, {S_Dash, S_Tail}}

Movielists(lib) == ListsUpTo(lib, MaxList)

(***************************************************************************)
(* Movieparse (src/src/movieparse/main.py): the pure steps.                *)
(***************************************************************************)
RECURSIVE SortedSeq(_)
SortedSeq(S) ==
    IF S = {} THEN <<>>
    ELSE LET m == CHOOSE x \in S : \A y \in S : x <= y
         IN <<m>> \o SortedSeq(S \ {m})

Column(rows, c) == {rows[i][c] : i \in 1..Len(rows)}
Column2Seq(rows) == [i \in 1..Len(rows) |-> rows[i].canonical_input]

\* parse_movielist + the first two lines of _generic_parse: the fresh rows
FreshRows(list) ==
    [i \in 1..Len(list) |->
        [input |-> list[i], canonical_input |-> list[i],
         tmdb_id |-> NO_EXTRACT, tmdb_id_man |-> DEFAULT]]

\* No deduplication at all, against which the one-row-per-input property
\* is tested.
drop_duplicates_none(rows, key) == rows

\* DataFrame.drop_duplicates(subset=key, keep="first")
RECURSIVE drop_duplicates_first(_, _)
drop_duplicates_first(rows, key) ==
    IF rows = <<>> THEN <<>>
    ELSE LET n == Len(rows)
             init == SubSeq(rows, 1, n - 1)
         IN IF \E j \in 1..(n - 1) : rows[j][key] = rows[n][key]
            THEN drop_duplicates_first(init, key)
            ELSE Append(drop_duplicates_first(init, key), rows[n])

\* A reconciliation in which the fresh row wins over the cached row
\* (keep="last"), against which the keep-first properties are tested.
update_mapping_keep_last(cached, fresh) ==
    drop_duplicates_first(fresh \o cached, "canonical_input")

\* _update_mapping:
\*   concat([cached_mapping, mapping]).drop_duplicates(keep="first")
update_mapping(cached, fresh) ==
    drop_duplicates_first(cached \o fresh, "canonical_input")

\* .str.extract(pattern).notnull().sum().sum(): two fields per matching row
Matches(style, list) ==
    2 * Cardinality({i \in 1..Len(list) : Extract(style, list[i]).matched})

\* A loop that never flags a conflict, so that the first of several patterns
\* with the same count wins; against it the treatment of ties is tested.
RECURSIVE GuessLoop_first_wins(_, _, _)
GuessLoop_first_wins(keys, list, acc) ==
    IF keys = <<>> THEN acc
    ELSE LET m == Matches(Head(keys), list)
         IN GuessLoop_first_wins(Tail(keys), list,
                IF m > acc.max_matches
                THEN [style |-> Head(keys), max_matches |-> m,
                      conflict |-> FALSE]
                ELSE acc)

\* _guess_parsing_style: the loop over the patterns, then the raise condition
RECURSIVE GuessLoop(_, _, _)
GuessLoop(keys, list, acc) ==
    IF keys = <<>> THEN acc
    ELSE LET m == Matches(Head(keys), list)
             next == IF m > acc.max_matches
                     THEN [style |-> Head(keys), max_matches |-> m,
                           conflict |-> FALSE]
                     ELSE IF m = acc.max_matches
                     THEN [acc EXCEPT !.conflict = TRUE]
                     ELSE acc
         IN GuessLoop(Tail(keys), list, next)

\* A guess that never raises, against which the configuration errors are
\* tested.
guess_parsing_style_no_raise(list, style) ==
    [style |-> GuessLoop(SortedSeq(PatternKeys), list,
                         [style |-> style, max_matches |-> 0,
                          conflict |-> FALSE]).style,
     raised |-> FALSE]

\* _guess_parsing_style on the names of list, from the style of the instance
guess_parsing_style(list, style) ==
    LET r == GuessLoop(SortedSeq(PatternKeys), list,
                       [style |-> style, max_matches |-> 0,
                        conflict |-> FALSE])
    IN [style |-> r.style,
        raised |-> (r.max_matches = 0 /\ r.style = -1) \/ r.conflict]

\* Every row looked up again, against which the skip property is tested.
needed_lookups_all(m) == 1..Len(m)

\* _get_ids_async: needed_lookups, then canon_ext = extract(...).dropna()
needed_lookups(m) == {i \in 1..Len(m) : m[i].tmdb_id \in default_codes}

\* The extraction without dropna(), against which the treatment of the rows
\* that do not match the pattern is tested.
CanonExt_keep_na(m, style) ==
    LET idx == SortedSeq(needed_lookups(m))
    IN [k \in 1..Len(idx) |->
          [index |-> idx[k],
           disk_title |-> Extract(style, m[idx[k]].canonical_input).disk_title,
           disk_year |-> Extract(style, m[idx[k]].canonical_input).disk_year]]

\* canon_ext: the extracted fields of the rows to look up, non-matching rows
\* dropped
CanonExt(m, style) ==
    LET idx == SortedSeq({i \in needed_lookups(m) :
                            Extract(style, m[i].canonical_input).matched})
    IN [k \in 1..Len(idx) |->
          [index |-> idx[k],
           disk_title |-> Extract(style, m[idx[k]].canonical_input).disk_title,
           disk_year |-> Extract(style, m[idx[k]].canonical_input).disk_year]]

\* the session.get(...) calls of one pass, in the order of canon_ext
SearchTasks(ce, exact) ==
    [k \in 1..Len(ce) |->
        [kind |-> IF exact THEN "exact" ELSE "title_only",
         row |-> ce[k].index,
         query |-> ce[k].disk_title,
         year |-> IF exact THEN ce[k].disk_year ELSE NoYear,
         tmdb_id |-> 0]]

\* resp["results"][0]["id"] with its IndexError / KeyError handlers
SearchResult(resp) ==
    IF ~resp.has_results THEN BAD_RESPONSE
    ELSE IF resp.results = <<>> THEN NO_RESULT
    ELSE resp.results[1]

\* results: one entry per response, in the order of `responses`
SearchResults(tsk, resps) ==
    [j \in 1..Len(resps) |->
        SearchResult(CatalogSearch(tsk[resps[j]].query, tsk[resps[j]].year))]

\* A pass whose results are not recorded in the mapping, against which the
\* computation of the fallback batch is tested.
StitchResults_unrecorded(m, ce, results) == m

\* An assignment that resets the rows outside the batch to NO_EXTRACT,
\* against which the rows that need no lookup are tested.
StitchResults_assign(m, ce, results) ==
    [i \in 1..Len(m) |->
        IF \E k \in 1..Len(ce) : ce[k].index = i
        THEN LET k == CHOOSE k \in 1..Len(ce) : ce[k].index = i
             IN [m[i] EXCEPT !.tmdb_id = results[k]]
        ELSE [m[i] EXCEPT !.tmdb_id = NO_EXTRACT]]

\* pd.DataFrame({"tmdb_id": results}, index=canon_ext.index)
\*   .reindex(mapping.index), then np.where(notnull(tmp), tmp, mapping)
StitchResults(m, ce, results) ==
    [i \in 1..Len(m) |->
        IF \E k \in 1..Len(ce) : ce[k].index = i
        THEN LET k == CHOOSE k \in 1..Len(ce) : ce[k].index = i
             IN [m[i] EXCEPT !.tmdb_id = results[k]]
        ELSE m[i]]

\* The lookup set without the subtraction of the default codes, against
\* which the sentinel exclusion is tested.
update_metadata_lookup_ids_keep_all(m) ==
    Column(m, "tmdb_id") \cup Column(m, "tmdb_id_man")

\* _update_metadata_lookup_ids
update_metadata_lookup_ids(m) ==
    (Column(m, "tmdb_id") \cup Column(m, "tmdb_id_man")) \ default_codes

\* A batch with one fetch per mapping cell rather than per id: two for
\* every id, against which the single fetch per id is tested.
MovieTasks_twice(ids) ==
    LET seq == SortedSeq(ids) \o SortedSeq(ids)
    IN [k \in 1..Len(seq) |->
          [kind |-> "movie", row |-> 0, query |-> <<>>, year |-> NoYear,
           tmdb_id |-> seq[k]]]

\* the session.get(...) calls of _get_metadata
MovieTasks(ids) ==
    LET seq == SortedSeq(ids)
    IN [k \in 1..Len(seq) |->
          [kind |-> "movie", row |-> 0, query |-> <<>>, year |-> NoYear,
           tmdb_id |-> seq[k]]]

\* _dissect_metadata_response: the rows one document adds to table c
RowCount(c, doc) ==
    CASE c = "cast" -> doc.cast
      [] c = "crew" -> doc.crew
      [] c = "collection" -> IF doc.belongs_to_collection THEN 1 ELSE 0
      [] c = "details" -> 1
      [] c = "genres" -> doc.genres
      [] c = "production_companies" -> doc.production_companies
      [] c = "production_countries" -> doc.production_countries
      [] c = "spoken_languages" -> doc.spoken_languages

\* A flattening that appends the details row only, against which the
\* completeness of the tables is tested.
dissect_details_only(tbls, doc) ==
    [c \in TableSet |->
        IF c = "details"
        THEN tbls[c] (+) SetToBag({[tmdb_id |-> doc.id, k |-> 1]})
        ELSE tbls[c]]

\* _dissect_metadata_response: the rows of the document appended to each
\* table, with tmdb_id = response.pop("id")
dissect_metadata_response(tbls, doc) ==
    [c \in TableSet |->
        tbls[c] (+) SetToBag({[tmdb_id |-> doc.id, k |-> k] :
                                 k \in 1..RowCount(c, doc)})]

\* _get_metadata: the loop over the responses, in completion order
RECURSIVE DissectAll(_, _, _)
DissectAll(tbls, tsk, resps) ==
    IF resps = <<>> THEN tbls
    ELSE LET response == CatalogMovie(tsk[Head(resps)].tmdb_id)
         IN DissectAll(IF response.status = 200
                       THEN dissect_metadata_response(tbls, response)
                       ELSE tbls,
                       tsk, Tail(resps))

(***************************************************************************)
(* Movieparse: the run of one instance.                                    *)
(*   none -> ready -> ids_exact [-> ids_backup] -> metadata -> parsed      *)
(*        -> written -> none                                               *)
(***************************************************************************)
\* The instance attributes before an instance exists.
NoTAM ==
    /\ naming_convention = 0
    /\ backup_call = FALSE
    /\ canon_input = <<>>
    /\ queries = <<>>
    /\ first_pass_df = <<>>
    /\ output_path = "none"
    /\ search_results = <<>>

NoInstance ==
    /\ NoTAM
    /\ STRICT = FALSE
    /\ FORCE_ID_UPDATE = FALSE
    /\ FORCE_METADATA_UPDATE = FALSE
    /\ PARSING_STYLE = -1
    /\ cached_mapping = <<>>
    /\ mapping = <<>>
    /\ tables = EmptyTables
    /\ metadata_lookup_ids = {}
    /\ canon_ext = <<>>
    /\ tasks = <<>>
    /\ pending = {}
    /\ responses = <<>>
    /\ sent = <<>>
    /\ movielist = <<>>

\* The constructor arguments tried.
ParsingStyles == -1..3

InitMP ==
    /\ disk = [f \in FileNames |-> NoFile]
    /\ runs = 0
    /\ pc = "none"
    /\ error = "none"
    /\ program = "Movieparse"
    /\ args \in [parsing_style : ParsingStyles, strict : BOOLEAN]
    /\ library \in Libraries
    /\ cached_metadata_ids = {}
    /\ NoInstance

\* __init__: the parsing_style check
\*   parsing_style not in range(-1, max(get_parsing_patterns().keys()))
ValidParsingStyle(style) ==
    LET top == CHOOSE k \in PatternKeys : \A j \in PatternKeys : j <= k
    IN style \in -1..(top - 1)

\* _read_existing
ReadTables(d) ==
    [t \in TableSet |-> IF d[t].exists THEN d[t].rows ELSE EmptyBag]
ReadMapping(d) == IF d["mapping"].exists THEN d["mapping"].rows ELSE <<>>

\* Movieparse(output_dir, parsing_style=style, strict=strict)
Construct(style, strict) ==
    /\ program = "Movieparse"
    /\ pc = "none"
    /\ runs < MaxRuns
    /\ IF ValidParsingStyle(style)
       THEN /\ STRICT' = strict
            /\ PARSING_STYLE' = style
            /\ tables' = ReadTables(disk)
            /\ cached_mapping' = ReadMapping(disk)
            /\ runs' = runs + 1
            /\ pc' = "ready"
            /\ error' = "none"
       ELSE /\ error' = "please supply a valid PARSING_STYLE!"
            /\ UNCHANGED <<STRICT, PARSING_STYLE, tables, cached_mapping,
                           runs, pc>>
    /\ UNCHANGED <<disk, mapping, metadata_lookup_ids, canon_ext, tasks,
                   pending, responses, sent, args, library,
                   movielist, program, varsOld, varsTAM>>

\* The start of one _get_ids_async(exact) on mapping m with the pattern of
\* style: the requests are dispatched and the coroutine waits in as_completed.
Dispatch(m, style, exact) ==
    LET ce == CanonExt(m, style)
        t == SearchTasks(ce, exact)
    IN /\ canon_ext' = ce
       /\ tasks' = t
       /\ pending' = 1..Len(t)
       /\ responses' = <<>>
       /\ sent' = sent \o t

\* parse_movielist up to the first suspension point: _generic_parse,
\* _guess_parsing_style, _update_mapping and the dispatch of the exact pass
parse_movielist(list) ==
    /\ program = "Movieparse"
    /\ pc = "ready"
    /\ movielist' = list
    /\ IF list = <<>>
       THEN /\ error' = "movielist can't be empty!"
            /\ pc' = "raised"
            /\ UNCHANGED <<mapping, PARSING_STYLE, canon_ext, tasks, pending,
                           responses, sent>>
       ELSE LET guess == IF PARSING_STYLE = -1
                         THEN guess_parsing_style(list, PARSING_STYLE)
                         ELSE [style |-> PARSING_STYLE, raised |-> FALSE]
            IN /\ PARSING_STYLE' = guess.style
               /\ IF guess.raised
                  THEN /\ error' = "couldn't estimate a parsing style"
                       /\ pc' = "raised"
                       /\ mapping' = FreshRows(list)
                       /\ UNCHANGED <<canon_ext, tasks, pending, responses,
                                      sent>>
                  ELSE /\ mapping' = update_mapping(cached_mapping,
                                                    FreshRows(list))
                       /\ Dispatch(mapping', guess.style, TRUE)
                       /\ pc' = "ids_exact"
                       /\ UNCHANGED error
    /\ UNCHANGED <<disk, runs, STRICT, cached_mapping, tables,
                   metadata_lookup_ids, args, library, program, varsOld, varsTAM>>

\* A collaborator whose first request of a batch stays pending for ever.
Complete_unresolved(k) ==
    /\ k > 1
    /\ pc \in {"ids_exact", "ids_backup", "metadata", "first_pass",
              "second_pass"}
    /\ k \in pending
    /\ pending' = pending \ {k}
    /\ responses' = Append(responses, k)
    /\ UNCHANGED <<disk, runs, pc, error, STRICT, PARSING_STYLE,
                   cached_mapping, mapping, tables, metadata_lookup_ids,
                   canon_ext, tasks, sent, args, library,
                   movielist, program, varsOld, varsTAM>>

\* One request of the batch in flight completes: as_completed yields it next.
Complete(k) ==
    /\ pc \in {"ids_exact", "ids_backup", "metadata", "first_pass",
              "second_pass"}
    /\ k \in pending
    /\ pending' = pending \ {k}
    /\ responses' = Append(responses, k)
    /\ UNCHANGED <<disk, runs, pc, error, STRICT, PARSING_STYLE,
                   cached_mapping, mapping, tables, metadata_lookup_ids,
                   canon_ext, tasks, sent, args, library,
                   movielist, program, varsOld, varsTAM>>

\* An end of _get_ids that leaves mapping.csv as it was.
FinishIds_unsaved(m) ==
    LET ids == update_metadata_lookup_ids(m)
        t == MovieTasks(ids)
    IN /\ mapping' = m
       /\ UNCHANGED disk
       /\ metadata_lookup_ids' = ids
       /\ canon_ext' = <<>>
       /\ tasks' = t
       /\ pending' = 1..Len(t)
       /\ responses' = <<>>
       /\ sent' = sent \o t
       /\ pc' = "metadata"

\* The end of _get_ids (mapping.to_csv), _update_metadata_lookup_ids and
\* the dispatch of _get_metadata, on the mapping m the passes produced.
FinishIds(m) ==
    LET ids == update_metadata_lookup_ids(m)
        t == MovieTasks(ids)
    IN /\ mapping' = m
       /\ disk' = [disk EXCEPT !["mapping"] = [exists |-> TRUE, rows |-> m]]
       /\ metadata_lookup_ids' = ids
       /\ canon_ext' = <<>>
       /\ tasks' = t
       /\ pending' = 1..Len(t)
       /\ responses' = <<>>
       /\ sent' = sent \o t
       /\ pc' = "metadata"

\* The rest of _get_ids_async(exact=True) once every response is in, then
\* either the dispatch of the title-only pass or the end of _get_ids.
FinishExact ==
    /\ pc = "ids_exact"
    /\ pending = {}
    /\ \E m \in {StitchResults(mapping, canon_ext,
                                SearchResults(tasks, responses))} :
          IF ~STRICT
          THEN /\ mapping' = m
               /\ Dispatch(m, PARSING_STYLE, FALSE)
               /\ pc' = "ids_backup"
               /\ UNCHANGED <<disk, metadata_lookup_ids>>
          ELSE FinishIds(m)
    /\ UNCHANGED <<runs, error, STRICT, PARSING_STYLE, cached_mapping,
                   tables, args, library,
                   movielist, program, varsOld, varsTAM>>

\* The rest of _get_ids_async(exact=False), then the end of _get_ids.
FinishBackup ==
    /\ pc = "ids_backup"
    /\ pending = {}
    /\ FinishIds(StitchResults(mapping, canon_ext,
                               SearchResults(tasks, responses)))
    /\ UNCHANGED <<runs, error, STRICT, PARSING_STYLE, cached_mapping,
                   tables, args, library,
                   movielist, program, varsOld, varsTAM>>

\* The rest of _get_metadata: every response is dissected in turn.
FinishMetadata ==
    /\ pc = "metadata"
    /\ pending = {}
    /\ tables' = DissectAll(tables, tasks, responses)
    /\ tasks' = <<>>
    /\ responses' = <<>>
    /\ pc' = "parsed"
    /\ UNCHANGED <<disk, runs, error, STRICT, PARSING_STYLE, cached_mapping,
                   mapping, metadata_lookup_ids, canon_ext, pending, sent,
                   args, library,
                   movielist, program, varsOld, varsTAM>>

\* A write that creates a file for every table, empty ones included.
WriteTables_all(d, tbls) ==
    [f \in FileNames |->
        IF f \in TableSet
        THEN [exists |-> TRUE, rows |-> tbls[f]]
        ELSE d[f]]

\* write(): every non-empty metadata table goes to <name>.csv
WriteTables(d, tbls) ==
    [f \in FileNames |->
        IF f \in TableSet /\ tbls[f] # EmptyBag
        THEN [exists |-> TRUE, rows |-> tbls[f]]
        ELSE d[f]]

write ==
    /\ program = "Movieparse"
    /\ pc = "parsed"
    /\ disk' = WriteTables(disk, tables)
    /\ pc' = "written"
    /\ UNCHANGED <<runs, error, STRICT, PARSING_STYLE, cached_mapping,
                   mapping, tables, metadata_lookup_ids, canon_ext, tasks,
                   pending, responses, sent, args, library,
                   movielist, program, varsOld, varsTAM>>

\* The caller drops the instance; the output location stays.
EndRun ==
    /\ pc \in {"parsed", "written", "raised"}
    /\ pc' = "none"
    /\ STRICT' = FALSE
    /\ PARSING_STYLE' = -1
    /\ cached_mapping' = <<>>
    /\ mapping' = <<>>
    /\ tables' = EmptyTables
    /\ metadata_lookup_ids' = {}
    /\ canon_ext' = <<>>
    /\ tasks' = <<>>
    /\ pending' = {}
    /\ responses' = <<>>
    /\ sent' = <<>>
    /\ movielist' = <<>>
    /\ FORCE_ID_UPDATE' = FALSE
    /\ FORCE_METADATA_UPDATE' = FALSE
    /\ UNCHANGED <<disk, runs, error, args, library, program,
                   cached_metadata_ids, varsTAM>>

\* Between two runs the user enters a manual override in mapping.csv.
UserOverride(i) ==
    /\ pc = "none"
    /\ runs < MaxRuns
    /\ disk["mapping"].exists
    /\ i \in 1..Len(disk["mapping"].rows)
    /\ disk["mapping"].rows[i].tmdb_id_man = DEFAULT
    /\ disk' = [disk EXCEPT !["mapping"].rows[i].tmdb_id_man = IdManual]
    /\ UNCHANGED <<runs, pc, error, STRICT, PARSING_STYLE, cached_mapping,
                   mapping, tables, metadata_lookup_ids, canon_ext, tasks,
                   pending, responses, sent, args, library,
                   movielist, program, varsOld, varsTAM>>

NextMP ==
    \/ Construct(args.parsing_style, args.strict)
    \/ pc = "ready" /\ \E list \in Movielists(library) : parse_movielist(list)
    \/ \E k \in pending : Complete(k)
    \/ FinishExact
    \/ FinishBackup
    \/ FinishMetadata
    \/ write
    \/ EndRun
    \/ \E i \in 1..Cardinality(library) : UserOverride(i)

vars == <<varsMP, program, varsOld, varsTAM>>

SpecMP == InitMP /\ [][NextMP]_vars

(***************************************************************************)
(* Movieparse: properties.                                                 *)
(***************************************************************************)
\* The value derived from the response to the k-th request in flight.
OwnResult(k) == SearchResult(CatalogSearch(tasks[k].query, tasks[k].year))

\* A step that ends one pass of _get_ids_async.
PassEnds == pc \in {"ids_exact", "ids_backup"} /\ pc' # pc

\* The mapping the current instance has written to mapping.csv.
IdsResolved == pc \in {"metadata", "parsed", "written"}

\* C1: at the end of every pass of _get_ids_async, whatever the order in
\* which the responses completed, every row that was looked up holds the
\* value derived from the response to its own query.
C1_OwnResponse ==
    [][PassEnds =>
         \A k \in 1..Len(canon_ext) :
             mapping'[canon_ext[k].index].tmdb_id = OwnResult(k)]_vars

\* C3: every row that mapping.csv held with a non-default tmdb_id_man when
\* a later run started is still in mapping.csv once that run has resolved
\* its ids, with the same tmdb_id_man.
C3_OverridePreserved ==
    IdsResolved =>
        \A i \in 1..Len(cached_mapping) :
            cached_mapping[i].tmdb_id_man # DEFAULT =>
                \E j \in 1..Len(disk["mapping"].rows) :
                    /\ disk["mapping"].rows[j].canonical_input
                           = cached_mapping[i].canonical_input
                    /\ disk["mapping"].rows[j].tmdb_id_man
                           = cached_mapping[i].tmdb_id_man

\* C3: a second run has written mapping.csv; the cache it started from held
\* an override, and the run added an input the cache did not have.
C3_Witness ==
    /\ program = "Movieparse"
    /\ runs = 2
    /\ pc = "written"
    /\ \E i \in 1..Len(cached_mapping) :
           cached_mapping[i].tmdb_id_man = IdManual
    /\ Len(disk["mapping"].rows) > Len(cached_mapping)

\* The inputs of a movielist in order of first occurrence.
Batch(list) == Column2Seq(drop_duplicates_first(FreshRows(list),
                                                "canonical_input"))

\* C4: when the second run on an output location is given the batch the
\* first run was given, the mapping it ends with is the mapping the first
\* run persisted.
C4_Idempotent ==
    (/\ program = "Movieparse"
     /\ runs = 2
     /\ IdsResolved
     /\ Batch(movielist) = Column2Seq(cached_mapping))
        => mapping = cached_mapping

\* C8: the persisted details table never holds two rows for one catalog id.
C8_DetailsOncePerId ==
    disk["details"].exists =>
        \A r \in BagToSet(disk["details"].rows) :
            CopiesIn(r, disk["details"].rows) = 1


(***************************************************************************)
(* movieparse (src/movieparse/main.py): the pure steps.  The mapping rows  *)
(* of this class have the columns tmdb_id, tmdb_id_man and input.          *)
(***************************************************************************)
\* movieparse.get_parsing_patterns(): keys 0, 1
movieparse_PatternKeys == {0, 1}

\* _create_mapping with the movielist strategy
movieparse_create_mapping(list) ==
    [i \in 1..Len(list) |->
        [tmdb_id |-> DEFAULT, tmdb_id_man |-> DEFAULT, input |-> list[i]]]

\* _guess_parsing_style: a later pattern wins only with more matches
RECURSIVE movieparse_GuessLoop(_, _, _)
movieparse_GuessLoop(keys, list, acc) ==
    IF keys = <<>> THEN acc
    ELSE LET m == Matches(Head(keys), list)
         IN movieparse_GuessLoop(Tail(keys), list,
                IF m > acc.max_matches
                THEN [style |-> Head(keys), max_matches |-> m]
                ELSE acc)

movieparse_guess_parsing_style(list, style) ==
    LET r == movieparse_GuessLoop(SortedSeq(movieparse_PatternKeys), list,
                                  [style |-> style, max_matches |-> 0])
    IN [style |-> r.style, raised |-> r.max_matches = 0 /\ r.style = -1]

\* _update_mapping: drop_duplicates(subset="input", keep="first")
movieparse_update_mapping(cached, fresh) ==
    drop_duplicates_first(cached \o fresh, "input")

\* One requests.get(...) of _get_id for the row at index row.
movieparse_Request(kind, row, title, year) ==
    [kind |-> kind, row |-> row, query |-> title,
     year |-> IF kind = "exact" THEN IntToStr(year) ELSE NoYear,
     tmdb_id |-> 0]

\* _get_id(title, year): the value returned and the requests issued.  The
\* request with title and year is guarded by year == NO_RESULT.
movieparse_get_id(row, title, year, strict) ==
    LET exact == movieparse_Request("exact", row, title, year)
        lax == movieparse_Request("title_only", row, title, year)
        r1 == CatalogSearch(title, exact.year)
        r2 == CatalogSearch(title, NoYear)
    IN IF year = NO_RESULT /\ ~r1.has_results
       THEN [tmdb_id |-> BAD_RESPONSE, requests |-> <<exact>>]
       ELSE IF year = NO_RESULT /\ r1.results # <<>>
       THEN [tmdb_id |-> r1.results[1], requests |-> <<exact>>]
       ELSE IF year = NO_RESULT /\ strict
       THEN [tmdb_id |-> NO_RESULT, requests |-> <<exact>>]
       ELSE [tmdb_id |-> SearchResult(r2),
             requests |-> (IF year = NO_RESULT THEN <<exact>> ELSE <<>>)
                             \o <<lax>>]

\* _get_ids: the body of the loop for the row at index i
movieparse_get_ids_row(m, i, style, force, strict) ==
    IF m[i].tmdb_id = DEFAULT \/ force
    THEN LET extract == Extract(style, m[i].input)
         IN IF extract.matched
            THEN movieparse_get_id(i, extract.disk_title,
                                   StrToInt(extract.disk_year), strict)
            ELSE [tmdb_id |-> NO_EXTRACT, requests |-> <<>>]
    ELSE [tmdb_id |-> m[i].tmdb_id, requests |-> <<>>]

\* _get_ids: the new tmdb_id column and the requests, row after row
movieparse_get_ids(m, style, force, strict) ==
    LET r == [i \in 1..Len(m) |->
                 movieparse_get_ids_row(m, i, style, force, strict)]
    IN [mapping |-> [i \in 1..Len(m) |->
                        [m[i] EXCEPT !.tmdb_id = r[i].tmdb_id]],
        requests |-> Concat([i \in 1..Len(m) |-> r[i].requests])]

\* The lookup set that never subtracts the cached ids, against which the
\* cache subtraction is tested.
movieparse_lookup_ids_no_cache(m, force, cached_ids) ==
    update_metadata_lookup_ids(m)

\* _update_metadata_lookup_ids
movieparse_update_metadata_lookup_ids(m, force, cached_ids) ==
    LET all == Column(m, "tmdb_id") \cup Column(m, "tmdb_id_man")
    IN (IF force THEN all ELSE all \ cached_ids)
           \ {DEFAULT, NO_RESULT, NO_EXTRACT, BAD_RESPONSE}

\* _dissect_metadata_response(response, tmdb_id)
movieparse_dissect_metadata_response(tbls, doc, tmdb_id) ==
    [c \in TableSet |->
        tbls[c] (+) SetToBag({[tmdb_id |-> tmdb_id, k |-> k] :
                                 k \in 1..RowCount(c, doc)})]

\* _get_metadata: one request per id, each response dissected whatever its
\* status; the body of a non-success response has no "credits" (KeyError)
RECURSIVE movieparse_get_metadata(_, _)
movieparse_get_metadata(tbls, ids) ==
    IF ids = <<>> THEN [tables |-> tbls, raised |-> FALSE]
    ELSE LET doc == CatalogMovie(Head(ids))
         IN IF doc.status # 200 THEN [tables |-> tbls, raised |-> TRUE]
            ELSE movieparse_get_metadata(
                     movieparse_dissect_metadata_response(tbls, doc,
                                                          Head(ids)),
                     Tail(ids))

\* _read_existing: the ids found in the tables that exist
TableIds(d) ==
    UNION {{r.tmdb_id : r \in BagToSet(d[t].rows)} :
              t \in {t \in TableSet : d[t].exists}}

(***************************************************************************)
(* movieparse: the run of one instance.                                    *)
(*   none -> ready -> parsed -> written -> none                            *)
(***************************************************************************)
movieparse_ParsingStyles == -1..2

InitOld ==
    /\ disk = [f \in FileNames |-> NoFile]
    /\ runs = 0
    /\ pc = "none"
    /\ error = "none"
    /\ program = "movieparse"
    /\ args \in [parsing_style : movieparse_ParsingStyles, strict : BOOLEAN,
                 force_id_update : BOOLEAN, force_metadata_update : BOOLEAN]
    /\ library \in Libraries
    /\ cached_metadata_ids = {}
    /\ NoInstance

\* __init__: parsing_style not in range(-1, max(get_parsing_patterns().keys()))
movieparse_ValidParsingStyle(style) ==
    LET top == CHOOSE k \in movieparse_PatternKeys :
                   \A j \in movieparse_PatternKeys : j <= k
    IN style \in -1..(top - 1)

\* movieparse(movie_list=list, output_path=..., parsing_style=...,
\*            force_id_update=..., force_metadata_update=..., strict=...)
movieparse_init(list, a) ==
    /\ program = "movieparse"
    /\ pc = "none"
    /\ runs < MaxRuns
    /\ IF movieparse_ValidParsingStyle(a.parsing_style)
       THEN /\ FORCE_ID_UPDATE' = a.force_id_update
            /\ FORCE_METADATA_UPDATE' = a.force_metadata_update
            /\ STRICT' = a.strict
            /\ PARSING_STYLE' = a.parsing_style
            /\ movielist' = list
            /\ cached_mapping' = ReadMapping(disk)
            /\ tables' = ReadTables(disk)
            /\ cached_metadata_ids' = cached_metadata_ids \cup TableIds(disk)
            /\ runs' = runs + 1
            /\ pc' = "ready"
            /\ error' = "none"
       ELSE /\ error' = "please supply a valid PARSING_STYLE!"
            /\ UNCHANGED <<FORCE_ID_UPDATE, FORCE_METADATA_UPDATE, STRICT,
                           PARSING_STYLE, movielist, cached_mapping, tables,
                           cached_metadata_ids, runs, pc>>
    /\ UNCHANGED <<disk, mapping, metadata_lookup_ids, canon_ext, tasks,
                   pending, responses, sent, args, library, program,
                   varsTAM>>

\* parse(): _create_mapping, _guess_parsing_style, _update_mapping,
\* _get_ids, _update_metadata_lookup_ids and _get_metadata, all synchronous
movieparse_parse ==
    /\ program = "movieparse"
    /\ pc = "ready"
    /\ LET fresh == movieparse_create_mapping(movielist)
           guess == IF PARSING_STYLE = -1
                    THEN movieparse_guess_parsing_style(movielist,
                                                        PARSING_STYLE)
                    ELSE [style |-> PARSING_STYLE, raised |-> FALSE]
           ids == movieparse_get_ids(
                      movieparse_update_mapping(cached_mapping, fresh),
                      guess.style, FORCE_ID_UPDATE, STRICT)
           lookup == movieparse_update_metadata_lookup_ids(
                         ids.mapping, FORCE_METADATA_UPDATE,
                         cached_metadata_ids)
       IN /\ PARSING_STYLE' = guess.style
          /\ IF guess.raised
             THEN /\ error' = "couldn't estimate a parsing style"
                  /\ pc' = "raised"
                  /\ mapping' = fresh
                  /\ UNCHANGED <<disk, sent, metadata_lookup_ids, tables>>
             ELSE /\ mapping' = ids.mapping
                  /\ sent' = ids.requests
                  /\ disk' = [disk EXCEPT !["mapping"] =
                                 [exists |-> TRUE, rows |-> ids.mapping]]
                  /\ metadata_lookup_ids' = lookup
                  /\ LET md == movieparse_get_metadata(tables,
                                                       SortedSeq(lookup))
                     IN /\ tables' = md.tables
                        /\ pc' = IF md.raised THEN "raised" ELSE "parsed"
                        /\ error' = IF md.raised THEN "KeyError" ELSE error
    /\ UNCHANGED <<runs, STRICT, cached_mapping, canon_ext, tasks, pending,
                   responses, args, library, movielist, program, varsOld, varsTAM>>

\* write()
movieparse_write ==
    /\ program = "movieparse"
    /\ pc = "parsed"
    /\ disk' = WriteTables(disk, tables)
    /\ pc' = "written"
    /\ UNCHANGED <<runs, error, STRICT, PARSING_STYLE, cached_mapping,
                   mapping, tables, metadata_lookup_ids, canon_ext, tasks,
                   pending, responses, sent, args, library, movielist,
                   program, varsOld, varsTAM>>

\* The interpreter exits: the class attribute is gone with the process.
NewProcess ==
    /\ program = "movieparse"
    /\ pc = "none"
    /\ cached_metadata_ids # {}
    /\ cached_metadata_ids' = {}
    /\ UNCHANGED <<varsMP, program, FORCE_ID_UPDATE, FORCE_METADATA_UPDATE,
                   varsTAM>>

NextOld ==
    \/ pc = "none" /\ \E list \in Movielists(library) :
                          movieparse_init(list, args)
    \/ movieparse_parse
    \/ movieparse_write
    \/ EndRun
    \/ \E i \in 1..Cardinality(library) : UserOverride(i)
    \/ NewProcess

SpecOld == InitOld /\ [][NextOld]_vars


(***************************************************************************)
(* movieparse: properties.                                                 *)
(***************************************************************************)
\* The search requests issued for the row at index i, in order.
RowRequests(i) ==
    SelectSeq(sent, LAMBDA r : r.row = i /\ r.kind # "movie")

\* C10: every row that _get_ids looks up gets a first request with its
\* title and its year; a title-only request follows only when that exact
\* search had an empty result list and strict is off; with strict on an
\* empty exact search leaves NO_RESULT and no title-only request.
C10_ExactFirst ==
    (program = "movieparse" /\ pc \in {"parsed", "written"}) =>
        \A i \in 1..Len(mapping) :
            LET reqs == RowRequests(i)
                extract == Extract(PARSING_STYLE, mapping[i].input)
                exact == CatalogSearch(extract.disk_title, extract.disk_year)
                empty == exact.has_results /\ exact.results = <<>>
                lax == \E j \in 1..Len(reqs) : reqs[j].kind = "title_only"
            IN reqs # <<>> =>
                  /\ reqs[1].kind = "exact"
                  /\ reqs[1].query = extract.disk_title
                  /\ reqs[1].year = extract.disk_year
                  /\ lax => (empty /\ ~STRICT)
                  /\ (STRICT /\ empty) =>
                        (mapping[i].tmdb_id = NO_RESULT /\ ~lax)

(***************************************************************************)
(* Both classes on their own output locations.                             *)
(***************************************************************************)
SpecPipelines == (InitMP \/ InitOld) /\ [][NextMP \/ NextOld]_vars

\* C9: a row that mapping.csv held with a real catalog id when the run
\* started, in a run without force_id_update, has no search request in the
\* run's request log and holds the same tmdb_id once the ids are resolved.
C9_SkipResolved ==
    (IdsResolved /\ ~FORCE_ID_UPDATE) =>
        \A i \in 1..Len(cached_mapping) :
            cached_mapping[i].tmdb_id \notin {0, -1, -2, -3} =>
                /\ mapping[i].tmdb_id = cached_mapping[i].tmdb_id
                /\ RowRequests(i) = <<>>

\* C9: the ids of a run are resolved; the cache held a row with a real id,
\* and another row of the run was looked up.
C9_Witness ==
    /\ IdsResolved
    /\ ~FORCE_ID_UPDATE
    /\ \E i \in 1..Len(cached_mapping) :
           cached_mapping[i].tmdb_id \notin {0, -1, -2, -3}
    /\ \E j \in 1..Len(sent) : sent[j].kind \in {"exact", "title_only"}

(***************************************************************************)
(* The reconciliation and the lookup set on their own: the attributes are  *)
(* set directly and the method is called, as tests/test_movieparse.py      *)
(* does.                                                                   *)
(*   unit -> reconciled -> lookup_ids                                      *)
(***************************************************************************)
UnitNames == {S_A, S_B}
UnitTmdbIds == {DEFAULT, NO_RESULT, NO_EXTRACT, BAD_RESPONSE, IdA}
UnitManIds == {DEFAULT, NO_RESULT, IdManual, IdA}
UnitCachedIds == SUBSET {IdA, IdManual}

\* The key column of the mapping of a class.
KeyOf(prog, row) ==
    IF prog = "Movieparse" THEN row.canonical_input ELSE row.input

UnitRow(prog, name, t, man) ==
    IF prog = "Movieparse"
    THEN [input |-> name, canonical_input |-> name, tmdb_id |-> t,
          tmdb_id_man |-> man]
    ELSE [tmdb_id |-> t, tmdb_id_man |-> man, input |-> name]

\* The mappings a mapping.csv can hold: one row per input.
UnitMappings(prog) ==
    LET rows == {UnitRow(prog, n, t, man) :
                    n \in UnitNames, t \in UnitTmdbIds, man \in UnitManIds}
    IN {<<>>} \cup {<<r>> : r \in rows}
         \cup {pair \in {<<r1, r2>> : r1 \in rows, r2 \in rows} :
                   KeyOf(prog, pair[1]) # KeyOf(prog, pair[2])}

UnitFresh(prog, list) ==
    IF prog = "Movieparse" THEN FreshRows(list)
    ELSE movieparse_create_mapping(list)

InitUnit ==
    /\ program \in {"Movieparse", "movieparse"}
    /\ pc = "unit"
    /\ movielist \in ListsUpTo(UnitNames, MaxList)
    /\ cached_mapping \in UnitMappings(program)
    /\ mapping = UnitFresh(program, movielist)
    /\ FORCE_METADATA_UPDATE \in
           (IF program = "movieparse" THEN BOOLEAN ELSE {FALSE})
    /\ cached_metadata_ids \in
           (IF program = "movieparse" THEN UnitCachedIds ELSE {{}})
    /\ disk = [f \in FileNames |-> NoFile]
    /\ runs = 0
    /\ error = "none"
    /\ STRICT = FALSE
    /\ FORCE_ID_UPDATE = FALSE
    /\ PARSING_STYLE = 0
    /\ tables = EmptyTables
    /\ metadata_lookup_ids = {}
    /\ canon_ext = <<>>
    /\ tasks = <<>>
    /\ pending = {}
    /\ responses = <<>>
    /\ sent = <<>>
    /\ args = [parsing_style |-> 0, strict |-> FALSE]
    /\ library = UnitNames
    /\ NoTAM

\* m._update_mapping() on a Movieparse
call_update_mapping ==
    /\ program = "Movieparse"
    /\ pc = "unit"
    /\ mapping' = update_mapping(cached_mapping, mapping)
    /\ pc' = "reconciled"
    /\ UNCHANGED <<disk, runs, error, STRICT, PARSING_STYLE, cached_mapping,
                   tables, metadata_lookup_ids, canon_ext, tasks, pending,
                   responses, sent, args, library, movielist, program,
                   varsOld, varsTAM>>

\* m._update_mapping() on a movieparse
call_movieparse_update_mapping ==
    /\ program = "movieparse"
    /\ pc = "unit"
    /\ mapping' = movieparse_update_mapping(cached_mapping, mapping)
    /\ pc' = "reconciled"
    /\ UNCHANGED <<disk, runs, error, STRICT, PARSING_STYLE, cached_mapping,
                   tables, metadata_lookup_ids, canon_ext, tasks, pending,
                   responses, sent, args, library, movielist, program,
                   varsOld, varsTAM>>

\* m._update_metadata_lookup_ids() on a Movieparse
call_update_metadata_lookup_ids ==
    /\ program = "Movieparse"
    /\ pc = "reconciled"
    /\ metadata_lookup_ids' = update_metadata_lookup_ids(mapping)
    /\ pc' = "lookup_ids"
    /\ UNCHANGED <<disk, runs, error, STRICT, PARSING_STYLE, cached_mapping,
                   mapping, tables, canon_ext, tasks, pending, responses,
                   sent, args, library, movielist, program, varsOld, varsTAM>>

\* m._update_metadata_lookup_ids() on a movieparse
call_movieparse_update_metadata_lookup_ids ==
    /\ program = "movieparse"
    /\ pc = "reconciled"
    /\ metadata_lookup_ids' =
           movieparse_update_metadata_lookup_ids(
               mapping, FORCE_METADATA_UPDATE, cached_metadata_ids)
    /\ pc' = "lookup_ids"
    /\ UNCHANGED <<disk, runs, error, STRICT, PARSING_STYLE, cached_mapping,
                   mapping, tables, canon_ext, tasks, pending, responses,
                   sent, args, library, movielist, program, varsOld, varsTAM>>

NextUnit ==
    \/ call_update_mapping
    \/ call_movieparse_update_mapping
    \/ call_update_metadata_lookup_ids
    \/ call_movieparse_update_metadata_lookup_ids

SpecUnit == InitUnit /\ [][NextUnit]_vars

\* The keys of the rows of a mapping, in order.
Keys(prog, rows) == [i \in 1..Len(rows) |-> KeyOf(prog, rows[i])]
KeySet(prog, rows) == {KeyOf(prog, rows[i]) : i \in 1..Len(rows)}

\* C5: the reconciled mapping has exactly one row per input of the cache
\* or of the fresh batch; it starts with the cached rows, unchanged, and
\* every further row is the placeholder row of an input the cache lacks.
C5_Reconcile ==
    pc \in {"reconciled", "lookup_ids"} =>
        LET cached == KeySet(program, cached_mapping)
            batch == {movielist[i] : i \in 1..Len(movielist)}
            n == Len(cached_mapping)
        IN /\ KeySet(program, mapping) = cached \cup batch
           /\ Len(mapping) = Cardinality(cached \cup batch)
           /\ SubSeq(mapping, 1, n) = cached_mapping
           /\ \A i \in (n + 1)..Len(mapping) :
                 /\ KeyOf(program, mapping[i]) \in batch \ cached
                 /\ mapping[i] \in
                        {UnitFresh(program, movielist)[j] :
                            j \in 1..Len(movielist)}

\* C5: a reconciliation in which one input is both cached (with ids of its
\* own) and in the fresh batch, and another input is in the batch only.
C5_Witness ==
    /\ pc = "reconciled"
    /\ \E i \in 1..Len(cached_mapping) :
          /\ cached_mapping[i].tmdb_id = IdA
          /\ cached_mapping[i].tmdb_id_man = IdManual
          /\ \E j \in 1..Len(movielist) :
                movielist[j] = KeyOf(program, cached_mapping[i])
    /\ \E j \in 1..Len(movielist) :
          movielist[j] \notin KeySet(program, cached_mapping)

\* C6: the lookup set holds none of 0, -1, -2, -3.
C6_NoSentinel ==
    pc = "lookup_ids" => metadata_lookup_ids \cap {0, -1, -2, -3} = {}

\* C6: a lookup set computed from a mapping with sentinels in both columns
\* and a real id.
C6_Witness ==
    /\ pc = "lookup_ids"
    /\ \E i \in 1..Len(mapping) : mapping[i].tmdb_id \in {-1, -2, -3}
    /\ \E i \in 1..Len(mapping) : mapping[i].tmdb_id_man = -1
    /\ metadata_lookup_ids # {}

\* C7: an id is in the lookup set of movieparse exactly when some row holds
\* it as tmdb_id or as tmdb_id_man, it is none of the four codes, and
\* either the refresh is forced or it is not among the cached metadata ids.
C7_LookupSet ==
    (program = "movieparse" /\ pc = "lookup_ids") =>
        \A id \in UnitTmdbIds \cup UnitManIds \cup metadata_lookup_ids :
            id \in metadata_lookup_ids <=>
                /\ \E i \in 1..Len(mapping) :
                      mapping[i].tmdb_id = id \/ mapping[i].tmdb_id_man = id
                /\ id \notin {0, -1, -2, -3}
                /\ FORCE_METADATA_UPDATE \/ id \notin cached_metadata_ids

\* C7: one row contributes its tmdb_id and its tmdb_id_man, while the
\* cache holds neither and no refresh is forced.
C7_Witness ==
    /\ program = "movieparse"
    /\ pc = "lookup_ids"
    /\ ~FORCE_METADATA_UPDATE
    /\ \E i \in 1..Len(mapping) :
          /\ mapping[i].tmdb_id = IdA
          /\ mapping[i].tmdb_id_man = IdManual
    /\ metadata_lookup_ids = {IdA, IdManual}

(***************************************************************************)
(* TmdbAsyncMovies (src/src/tmdb_async_movies/main.py): URLs and keys.     *)
(***************************************************************************)
\* The characters that urllib.parse.quote_plus and the query quoter of the
\* HTTP client leave as they are.
Unreserved ==
    Digits \cup {"A", "B", "a", "e", "n", "q", "r", "u", "y", "-", ".", "_",
                 "~"}

\* %XX of a reserved character
PercentEncode(c) ==
    CASE c = "&" -> <<"%", "2", "6">>
      [] c = "=" -> <<"%", "3", "D">>
      [] c = "+" -> <<"%", "2", "B">>
      [] c = "%" -> <<"%", "2", "5">>
      [] c = "?" -> <<"%", "3", "F">>

\* urllib.parse.quote_plus
quote_plus(str) ==
    Concat([i \in 1..Len(str) |->
               IF str[i] = " " THEN <<"+">>
               ELSE IF str[i] \in Unreserved THEN <<str[i]>>
               ELSE PercentEncode(str[i])])

\* The quoting of a params value by retry_client.get(url, params=params):
\* a space becomes "+", a character that delimits the query is %-encoded.
QueryQuote(str) ==
    Concat([i \in 1..Len(str) |->
               IF str[i] = " " THEN <<"+">>
               ELSE IF str[i] \in Unreserved \cup {"?"} THEN <<str[i]>>
               ELSE PercentEncode(str[i])])

\* Series.str.replace(" ", "+")
ReplaceSpace(str) ==
    [i \in 1..Len(str) |-> IF str[i] = " " THEN "+" ELSE str[i]]

\* The part of the request URL before the params.
BaseUrl == <<"?", "p", "a", "g", "e", "=", "1">>
QueryMark == <<"&", "q", "u", "e", "r", "y", "=">>
YearMark == <<"&", "y", "e", "a", "r", "=">>
\* str(float("nan")), the query sent for a missing title
NanStr == <<"n", "a", "n">>

\* A request that carries the year whatever its value.
RequestUrl_year_always(title, year) ==
    BaseUrl \o QueryMark \o QueryQuote(title) \o YearMark \o IntToStr(year)

\* str(response.url) of _request_id(title, year)
RequestUrl(title, year) ==
    BaseUrl \o QueryMark \o QueryQuote(title)
        \o (IF year = -1 THEN <<>> ELSE YearMark \o IntToStr(year))

\* results["url"].str.extract(r".*(&query=.*)$"): from the last "&query="
url_match(url) ==
    LET starts == {i \in 1..Len(url) :
                      /\ i + Len(QueryMark) - 1 <= Len(url)
                      /\ SubSeq(url, i, i + Len(QueryMark) - 1) = QueryMark}
        last == CHOOSE i \in starts : \A j \in starts : j <= i
    IN SubSeq(url, last, Len(url))

\* A missing value (NaN) of a numeric column, and of the title column.
NaN == -9
NoTitle == <<>>

(***************************************************************************)
(* TmdbAsyncMovies: the pure steps.                                        *)
(***************************************************************************)
\* naming_convention_map: keys 0, 1 (the patterns 0 and 1 above)
naming_convention_map == {0, 1}

\* _extract_queries: query, title, year (NaN title and year -1 when the
\* query does not match)
extract_queries(qs, convention) ==
    [i \in 1..Len(qs) |->
        LET e == Extract(convention, qs[i])
        IN [query |-> qs[i],
            title |-> IF e.matched THEN e.disk_title ELSE NoTitle,
            year |-> IF e.matched THEN StrToInt(e.disk_year) ELSE -1,
            tmdb_id_first_pass |-> NaN, tmdb_id_second_pass |-> NaN,
            tmdb_id |-> NaN]]

\* DataFrame.dropna(subset=["title"])
DropNoTitle(rows) == SelectSeq(rows, LAMBDA r : r.title # NoTitle)

\* search_ids: one _request_id per row, in row order
tam_SearchTasks(rows, kind) ==
    [k \in 1..Len(rows) |->
        [kind |-> kind, row |-> k,
         query |-> IF rows[k].title = NoTitle THEN NanStr ELSE rows[k].title,
         year |-> rows[k].year, tmdb_id |-> 0]]

\* _request_id: what becomes of one response.  resp["results"][0]["id"]
\* is tried when the status is 200, and only IndexError is handled.
request_id_response(resp) ==
    IF resp.status # 200 THEN [raised |-> "none", tmdb_id |-> -1]
    ELSE IF ~resp.has_results THEN [raised |-> "KeyError", tmdb_id |-> -1]
    ELSE IF resp.results = <<>> THEN [raised |-> "none", tmdb_id |-> -1]
    ELSE [raised |-> "none", tmdb_id |-> resp.results[1]]

\* _request_id: tmdb_id and url of one response
request_id(title, year) ==
    LET resp == CatalogSearch(title,
                              IF year = -1 THEN NoYear ELSE IntToStr(year))
    IN [tmdb_id |-> request_id_response(resp).tmdb_id,
        url |-> RequestUrl(title, year)]

\* search_ids: the frames of the responses, concatenated in completion order
tam_Results(tsk, resps) ==
    [j \in 1..Len(resps) |->
        request_id(tsk[resps[j]].query, tsk[resps[j]].year)]

\* _match_results_pass: the url_match key of a row of pass_df
PassKey(row, first_pass) ==
    quote_plus(ReplaceSpace(
        QueryMark \o row.title
            \o (IF first_pass /\ row.year # -1
                THEN YearMark \o IntToStr(row.year) ELSE <<>>)))

\* _match_results_pass: the url_match key of a row of results
ResultKey(r) == quote_plus(url_match(r.url))

\* pd.merge(left, right, how="left", on="url_match")["tmdb_id"] followed by
\* fillna(-1), on the key columns of the two frames: one entry per matching
\* pair, in the order of the left frame, and one entry for a row without a
\* match
MergeOn(left_keys, right_keys, results) ==
    Concat([i \in 1..Len(left_keys) |->
               LET hits == SelectSeq([j \in 1..Len(results) |-> j],
                               LAMBDA j : right_keys[j] = left_keys[i])
               IN IF hits = <<>> THEN <<-1>>
                  ELSE [j \in 1..Len(hits) |-> results[hits[j]].tmdb_id]])

\* _match_results_pass: the url_match column of each frame, then the merge
LeftMerge(pass_df, results, first_pass) ==
    MergeOn([i \in 1..Len(pass_df) |-> PassKey(pass_df[i], first_pass)],
            [j \in 1..Len(results) |-> ResultKey(results[j])],
            results)

\* _match_results_pass: df joined onto canon_input by index, how="left"
match_results_pass(results, pass_df, canon, first_pass) ==
    LET df == LeftMerge(pass_df, results, first_pass)
    IN [i \in 1..Len(canon) |->
          LET v == IF i <= Len(df) THEN df[i] ELSE NaN
          IN IF first_pass
             THEN [canon[i] EXCEPT !.tmdb_id_first_pass = v]
             ELSE [canon[i] EXCEPT !.tmdb_id_second_pass = v]]

\* generic_parse: second_pass = canon_input[tmdb_id_first_pass == -1]
SecondPass(canon) ==
    LET rows == SelectSeq(canon, LAMBDA r : r.tmdb_id_first_pass = -1)
    IN [k \in 1..Len(rows) |-> [rows[k] EXCEPT !.year = -1]]

\* fillna(-1)
FillNa(v) == IF v = NaN THEN -1 ELSE v

\* A final column that takes the fallback's id whenever there was a
\* fallback, against which the precedence of the first pass is tested.
FinalIds_fallback_always(canon, backup) ==
    [i \in 1..Len(canon) |->
        LET second == IF backup THEN canon[i].tmdb_id_second_pass ELSE -1
            first == canon[i].tmdb_id_first_pass
        IN [canon[i] EXCEPT
               !.tmdb_id_second_pass = second,
               !.tmdb_id = FillNa(IF backup THEN second ELSE first)]]

\* generic_parse: the tmdb_id column after the passes
FinalIds(canon, backup) ==
    [i \in 1..Len(canon) |->
        LET second == IF backup THEN canon[i].tmdb_id_second_pass ELSE -1
            first == canon[i].tmdb_id_first_pass
        IN [canon[i] EXCEPT
               !.tmdb_id_second_pass = second,
               !.tmdb_id = FillNa(IF backup /\ first = -1 THEN second
                                  ELSE first)]]

\* get_metadata: tmdb_ids = {t for t in tmdb_ids if t >= 0}
get_metadata_filter(tmdb_ids) == {t \in tmdb_ids : t >= 0}

\* get_metadata: one request per id that passes the filter
get_metadata_tasks(tmdb_ids, kind) ==
    LET seq == SortedSeq(get_metadata_filter(tmdb_ids))
    IN [k \in 1..Len(seq) |->
          [kind |-> kind, row |-> 0, query |-> <<>>, year |-> -1,
           tmdb_id |-> seq[k]]]

\* generic_parse: tmdb_ids = set(canon_input["tmdb_id"])
tam_MetadataIds(canon) ==
    get_metadata_filter({canon[i].tmdb_id : i \in 1..Len(canon)})

tam_MetadataTasks(canon, kind) ==
    get_metadata_tasks({canon[i].tmdb_id : i \in 1..Len(canon)}, kind)

\* The internal tables other than canon_input.
tam_TableSet ==
    {"belongs_to_collection", "cast", "crew", "genres", "movie_details",
     "production_companies", "production_countries", "spoken_languages"}
tam_FileNames == tam_TableSet \cup {"canon_input"}

tam_RowCount(c, doc) ==
    CASE c = "belongs_to_collection" ->
           IF doc.belongs_to_collection THEN 1 ELSE 0
      [] c = "movie_details" -> 1
      [] OTHER -> RowCount(c, doc)

\* An assignment of the new rows in place of the concatenation.
tam_Append_overwrite(tbls, names, doc) ==
    [c \in tam_TableSet |->
        IF c \in names /\ doc.status = 200
        THEN SetToBag({[tmdb_id |-> doc.id, k |-> k] :
                          k \in 1..tam_RowCount(c, doc)})
        ELSE tbls[c]]

\* _request_details / _request_credits: the rows one response appends
tam_Append(tbls, names, doc) ==
    [c \in tam_TableSet |->
        IF c \in names /\ doc.status = 200
        THEN tbls[c] (+) SetToBag({[tmdb_id |-> doc.id, k |-> k] :
                                      k \in 1..tam_RowCount(c, doc)})
        ELSE tbls[c]]

(***************************************************************************)
(* TmdbAsyncMovies: one instance.                                          *)
(*   none -> ready -> first_pass [-> second_pass] -> movie_details         *)
(*        -> credits -> parsed                                             *)
(***************************************************************************)
tam_Inputs == {S_A, S_A2, S_B, S_Amp, S_NoYear}
tam_Libraries == {{x, y} : x, y \in tam_Inputs}
tam_Conventions == -1..2

InitTAM ==
    /\ program = "TmdbAsyncMovies"
    /\ args \in [naming_convention : tam_Conventions, backup_call : BOOLEAN]
    /\ library \in tam_Libraries
    /\ disk = [f \in tam_FileNames |-> NoFile]
    /\ tables = [t \in tam_TableSet |-> EmptyBag]
    /\ runs = 0
    /\ pc = "none"
    /\ error = "none"
    /\ NoTAM
    /\ STRICT = FALSE
    /\ FORCE_ID_UPDATE = FALSE
    /\ FORCE_METADATA_UPDATE = FALSE
    /\ PARSING_STYLE = -1
    /\ cached_mapping = <<>>
    /\ mapping = <<>>
    /\ metadata_lookup_ids = {}
    /\ cached_metadata_ids = {}
    /\ canon_ext = <<>>
    /\ tasks = <<>>
    /\ pending = {}
    /\ responses = <<>>
    /\ sent = <<>>
    /\ movielist = <<>>

\* TmdbAsyncMovies(naming_convention=..., backup_call=...)
tam_init(a) ==
    /\ program = "TmdbAsyncMovies"
    /\ pc = "none"
    /\ IF a.naming_convention \in naming_convention_map
       THEN /\ naming_convention' = a.naming_convention
            /\ backup_call' = a.backup_call
            /\ pc' = "ready"
            /\ error' = "none"
       ELSE /\ error' = "Please provide a proper NAMING_CONVENTION!"
            /\ UNCHANGED <<naming_convention, backup_call, pc>>
    /\ UNCHANGED <<varsMP_but_pc_error, program, varsOld, canon_input,
                   queries, first_pass_df, output_path, search_results>>

\* The dispatch of one search_ids(rows): nothing is sent for an empty frame.
tam_Dispatch(rows, kind, log) ==
    LET t == tam_SearchTasks(rows, kind)
    IN /\ tasks' = t
       /\ pending' = 1..Len(t)
       /\ responses' = <<>>
       /\ sent' = log \o t

\* generic_parse(queries) up to the first suspension point
generic_parse(qs) ==
    /\ program = "TmdbAsyncMovies"
    /\ pc \in {"ready", "parsed"}
    /\ runs < MaxRuns
    /\ runs' = runs + 1
    /\ queries' = qs
    /\ canon_input' = extract_queries(qs, naming_convention)
    /\ first_pass_df' = DropNoTitle(canon_input')
    /\ tam_Dispatch(first_pass_df', "first_pass", <<>>)
    /\ pc' = "first_pass"
    /\ error' = "none"
    /\ output_path' = "none"
    /\ UNCHANGED <<disk, STRICT, PARSING_STYLE, cached_mapping, mapping,
                   tables, metadata_lookup_ids, canon_ext, args, library,
                   movielist, program, varsOld, naming_convention,
                   backup_call, search_results>>

\* The end of the passes: the final tmdb_id column, then the dispatch of
\* get_metadata("movie_details", ...)
tam_StartDetails(canon) ==
    /\ canon_input' = FinalIds(canon, backup_call)
    /\ tasks' = tam_MetadataTasks(canon_input', "movie_details")
    /\ pending' = 1..Len(tasks')
    /\ responses' = <<>>
    /\ sent' = sent \o tasks'
    /\ pc' = "movie_details"
    /\ UNCHANGED error

\* generic_parse once the first pass is complete.  A second-pass row
\* without a title sends float("nan") as its query, which the client
\* either rejects or formats.
tam_FinishFirstPass ==
    /\ pc = "first_pass"
    /\ pending = {}
    /\ \E canon \in {match_results_pass(tam_Results(tasks, responses),
                                        first_pass_df, canon_input, TRUE)} :
       LET second == SecondPass(canon)
       IN IF backup_call
          THEN \E rejected \in
                   {b \in BOOLEAN :
                       b => \E k \in 1..Len(second) :
                               second[k].title = NoTitle} :
                  /\ canon_input' = canon
                  /\ IF rejected
                     THEN /\ error' = "ValueError"
                          /\ pc' = "raised"
                          /\ UNCHANGED <<tasks, pending, responses, sent>>
                     ELSE /\ tam_Dispatch(second, "second_pass", sent)
                          /\ pc' = "second_pass"
                          /\ UNCHANGED error
          ELSE tam_StartDetails(canon)
    /\ UNCHANGED <<disk, runs, STRICT, PARSING_STYLE, cached_mapping,
                   mapping, tables, metadata_lookup_ids, canon_ext, args,
                   library, movielist, program, varsOld, naming_convention,
                   backup_call, queries, first_pass_df, output_path,
                   search_results>>

\* generic_parse once the second pass is complete
tam_FinishSecondPass ==
    /\ pc = "second_pass"
    /\ pending = {}
    /\ tam_StartDetails(match_results_pass(tam_Results(tasks, responses),
                                           first_pass_df, canon_input,
                                           FALSE))
    /\ UNCHANGED <<disk, runs, STRICT, PARSING_STYLE, cached_mapping,
                   mapping, tables, metadata_lookup_ids, canon_ext, args,
                   library, movielist, program, varsOld, naming_convention,
                   backup_call, queries, first_pass_df, output_path,
                   search_results>>

\* _request_details / _request_credits of one id runs to its end
request_metadata(k) ==
    /\ pc \in {"movie_details", "credits"}
    /\ k \in pending
    /\ tables' = tam_Append(tables,
                            IF pc = "credits" THEN {"cast", "crew"}
                            ELSE tam_TableSet \ {"cast", "crew"},
                            CatalogMovie(tasks[k].tmdb_id))
    /\ pending' = pending \ {k}
    /\ responses' = Append(responses, k)
    /\ UNCHANGED <<disk, runs, pc, error, STRICT, PARSING_STYLE,
                   cached_mapping, mapping, metadata_lookup_ids, canon_ext,
                   tasks, sent, args, library, movielist, program, varsOld,
                   varsTAM>>

\* generic_parse between the two get_metadata calls
tam_FinishDetails ==
    /\ pc = "movie_details"
    /\ pending = {}
    /\ tasks' = tam_MetadataTasks(canon_input, "credits")
    /\ pending' = 1..Len(tasks')
    /\ responses' = <<>>
    /\ sent' = sent \o tasks'
    /\ pc' = "credits"
    /\ UNCHANGED <<disk, runs, error, STRICT, PARSING_STYLE, cached_mapping,
                   mapping, tables, metadata_lookup_ids, canon_ext, args,
                   library, movielist, program, varsOld, varsTAM>>

\* The end of generic_parse: _assign_types casts the three id columns of
\* canon_input to int, which fails on a missing value.
tam_FinishCredits ==
    /\ pc = "credits"
    /\ pending = {}
    /\ tasks' = <<>>
    /\ responses' = <<>>
    /\ IF \E i \in 1..Len(canon_input) :
             NaN \in {canon_input[i].tmdb_id_first_pass,
                      canon_input[i].tmdb_id_second_pass}
       THEN /\ error' = "IntCastingNaNError"
            /\ pc' = "raised"
       ELSE /\ pc' = "parsed"
            /\ UNCHANGED error
    /\ UNCHANGED <<disk, runs, STRICT, PARSING_STYLE, cached_mapping,
                   mapping, tables, metadata_lookup_ids, canon_ext, pending,
                   sent, args, library, movielist, program, varsOld,
                   varsTAM>>

\* A write that does not look at output_path.exists().
tam_write_unchecked(path_exists) ==
    /\ program = "TmdbAsyncMovies"
    /\ pc \in {"ready", "parsed"}
    /\ disk' = [f \in tam_FileNames |->
                    [exists |-> TRUE,
                     rows |-> IF f = "canon_input" THEN canon_input
                              ELSE tables[f]]]
    /\ error' = "none"
    /\ output_path' = (IF path_exists THEN "exists" ELSE "missing")
    /\ UNCHANGED <<runs, pc, STRICT, PARSING_STYLE, cached_mapping, mapping,
                   tables, metadata_lookup_ids, canon_ext, tasks, pending,
                   responses, sent, args, library, movielist, program,
                   varsOld, naming_convention, backup_call, canon_input,
                   queries, first_pass_df, search_results>>

\* write(output_path)
tam_write(path_exists) ==
    /\ program = "TmdbAsyncMovies"
    /\ pc \in {"ready", "parsed"}
    /\ IF path_exists
       THEN /\ disk' = [f \in tam_FileNames |->
                           [exists |-> TRUE,
                            rows |-> IF f = "canon_input" THEN canon_input
                                     ELSE tables[f]]]
            /\ error' = "none"
       ELSE /\ error' = "Can't write data as OUTPUT_PATH doesn't exist!"
            /\ UNCHANGED disk
    /\ output_path' = (IF path_exists THEN "exists" ELSE "missing")
    /\ UNCHANGED <<runs, pc, STRICT, PARSING_STYLE, cached_mapping, mapping,
                   tables, metadata_lookup_ids, canon_ext, tasks, pending,
                   responses, sent, args, library, movielist, program,
                   varsOld, naming_convention, backup_call, canon_input,
                   queries, first_pass_df, search_results>>

NextTAM ==
    \/ tam_init(args)
    \/ pc \in {"ready", "parsed"}
          /\ \E qs \in Movielists(library) \ {<<>>} : generic_parse(qs)
    \/ \E k \in pending : Complete(k)
    \/ tam_FinishFirstPass
    \/ tam_FinishSecondPass
    \/ \E k \in pending : request_metadata(k)
    \/ tam_FinishDetails
    \/ tam_FinishCredits
    \/ \E path_exists \in BOOLEAN : tam_write(path_exists)

SpecTAM == InitTAM /\ [][NextTAM]_vars

\* The id the catalog returns for the title and year of row i, with the
\* title-only search as the fallback when backup_call is on.
OwnId(row) ==
    LET first == request_id(row.title, row.year).tmdb_id
    IN IF first # -1 \/ ~backup_call THEN first
       ELSE request_id(row.title, -1).tmdb_id

\* The ids of the current generic_parse are final.
tam_IdsResolved ==
    program = "TmdbAsyncMovies" /\ pc \in {"movie_details", "credits",
                                            "parsed"}

\* C2: when the queries of a batch are pairwise distinct and all match the
\* naming convention, every canon_input row ends with the id the catalog
\* returned for its own title and year, whatever the completion order.
C2_OwnId ==
    (/\ tam_IdsResolved
     /\ \A i, j \in 1..Len(queries) : queries[i] = queries[j] => i = j
     /\ \A i \in 1..Len(canon_input) : canon_input[i].title # NoTitle)
        => \A i \in 1..Len(canon_input) :
              canon_input[i].tmdb_id = OwnId(canon_input[i])

(***************************************************************************)
(* Movieparse: the two passes of _get_ids.                                 *)
(***************************************************************************)
\* The value derived from the response to the exact search of row i of the
\* mapping: its title and year under the pattern of the run.
RowExactResult(i) ==
    LET extract == Extract(PARSING_STYLE, mapping[i].canonical_input)
    IN SearchResult(CatalogSearch(extract.disk_title, extract.disk_year))

\* Row i has a request of the given kind in the request log of the run.
RowHas(i, kind) ==
    \E j \in 1..Len(sent) : sent[j].row = i /\ sent[j].kind = kind

\* C11: once the ids of a run of Movieparse are resolved, the request log
\* holds no title-only request when strict is set; a row has a title-only
\* request only if its exact search produced no catalog id; and a row whose
\* exact search produced a catalog id holds that id.
C11_FallbackOnlyAfterMiss ==
    (program = "Movieparse" /\ IdsResolved) =>
        /\ STRICT => \A j \in 1..Len(sent) : sent[j].kind # "title_only"
        /\ \A i \in 1..Len(mapping) :
              /\ RowHas(i, "title_only") =>
                    /\ RowHas(i, "exact")
                    /\ RowExactResult(i) \in {NO_RESULT, BAD_RESPONSE}
              /\ (RowHas(i, "exact") /\ RowExactResult(i) \notin default_codes)
                    => mapping[i].tmdb_id = RowExactResult(i)

(***************************************************************************)
(* The two classes that search in concurrent batches, each on its own      *)
(* instance.                                                               *)
(***************************************************************************)
NextAsync ==
    \/ program = "Movieparse" /\ NextMP
    \/ program = "TmdbAsyncMovies" /\ NextTAM

SpecAsync == (InitMP \/ InitTAM) /\ [][NextAsync]_vars

\* The kinds of the requests of the title-only pass of either class.
FallbackKinds == {"title_only", "second_pass"}

\* The positions in the request log of the fallback requests that the
\* current step dispatches.
NewFallback ==
    {j \in 1..Len(sent') : j > Len(sent) /\ sent'[j].kind \in FallbackKinds}

\* The rows of the fallback batch, computed from the results of the whole
\* first pass: for Movieparse the indices of the rows whose result is a
\* default code, for TmdbAsyncMovies the titles of the rows whose
\* tmdb_id_first_pass is -1 (a missing title is sent as "nan").
FallbackBatch ==
    IF program = "Movieparse"
    THEN LET results == SearchResults(tasks, responses)
         IN {canon_ext[k].index : k \in {k \in 1..Len(canon_ext) :
                                            results[k] \in default_codes}}
    ELSE LET canon == match_results_pass(tam_Results(tasks, responses),
                                         first_pass_df, canon_input, TRUE)
         IN {IF canon[i].title = NoTitle THEN NanStr ELSE canon[i].title :
                i \in {i \in 1..Len(canon) :
                          canon[i].tmdb_id_first_pass = -1}}

\* C12: a step that dispatches title-only requests is taken when no request
\* of the first pass is in flight and the response of each one has been
\* received, and it dispatches them for exactly the rows that the results
\* of the whole first pass leave without an id.
C12_BatchBarrier ==
    [][NewFallback # {} =>
          /\ pc \in {"ids_exact", "first_pass"}
          /\ pending = {}
          /\ {responses[j] : j \in 1..Len(responses)} = 1..Len(tasks)
          /\ \A j \in 1..Len(tasks) :
                tasks[j].kind \in {"exact", "first_pass"}
          /\ FallbackBatch =
                {IF program = "Movieparse" THEN sent'[j].row
                 ELSE sent'[j].query : j \in NewFallback}]_vars

\* C12: a fallback pass is in flight after a first pass of two requests, of
\* which one left its row without an id.
C12_Witness ==
    /\ pc \in {"ids_backup", "second_pass"}
    /\ Cardinality({j \in 1..Len(sent) :
                       sent[j].kind \in {"exact", "first_pass"}}) = 2
    /\ Cardinality({j \in 1..Len(sent) :
                       sent[j].kind \in FallbackKinds}) = 1

(***************************************************************************)
(* Movieparse: the isolation of the responses of one batch.                *)
(***************************************************************************)
\* The response to the k-th request in flight.
OwnResponse(k) == CatalogSearch(tasks[k].query, tasks[k].year)

\* The response carries at least one result.
Found(resp) == resp.has_results /\ resp.results # <<>>

\* C13: at the end of every pass of _get_ids_async no exception is raised;
\* a looked-up row whose own response carries a result holds the id of its
\* first result, whatever the responses of the other rows of the batch are,
\* and holds NO_RESULT or BAD_RESPONSE only if its own response is empty or
\* malformed; the tmdb_id_man column is left alone (so a batch whose every
\* response is malformed ends with BAD_RESPONSE and tmdb_id_man 0 on each
\* fresh row).
C13_Isolation ==
    [][PassEnds =>
         /\ pc' # "raised"
         /\ error' = error
         /\ \A k \in 1..Len(canon_ext) :
               LET row == mapping'[canon_ext[k].index]
                   own == OwnResponse(k)
               IN /\ Found(own) => row.tmdb_id = own.results[1]
                  /\ row.tmdb_id = BAD_RESPONSE => ~own.has_results
                  /\ row.tmdb_id = NO_RESULT
                        => own.has_results /\ own.results = <<>>
                  /\ row.tmdb_id_man
                        = mapping[canon_ext[k].index].tmdb_id_man]_vars

\* C14: once the ids of a run of Movieparse are resolved, a row whose exact
\* search was answered with a malformed response holds BAD_RESPONSE and the
\* request log holds no title-only request for it.
C14_BadResponseTerminal ==
    (program = "Movieparse" /\ IdsResolved) =>
        \A i \in 1..Len(mapping) :
            (RowHas(i, "exact") /\ RowExactResult(i) = BAD_RESPONSE) =>
                /\ mapping[i].tmdb_id = BAD_RESPONSE
                /\ ~RowHas(i, "title_only")

(***************************************************************************)
(* Movieparse: rows that do not match the pattern of the run.              *)
(***************************************************************************)
\* Row i of the mapping was not in mapping.csv when the run started.
Fresh(i) ==
    \A j \in 1..Len(cached_mapping) :
        cached_mapping[j].canonical_input # mapping[i].canonical_input

\* Row i of the mapping matches the pattern of the run.
RowMatches(i) == Extract(PARSING_STYLE, mapping[i].canonical_input).matched

\* C15: once the ids of a run of Movieparse are resolved, a fresh row that
\* does not match the pattern has no request in the request log, holds
\* NO_EXTRACT and tmdb_id_man 0, and neither value is in the lookup set; the
\* fresh rows that do match each have an exact request and no longer hold
\* NO_EXTRACT; and when no row of the mapping is of the second kind the
\* lookup set and every metadata table are empty.
C15_NoExtract ==
    (program = "Movieparse" /\ IdsResolved) =>
        /\ \A i \in 1..Len(mapping) :
              IF Fresh(i) /\ ~RowMatches(i)
              THEN /\ \A j \in 1..Len(sent) : sent[j].row # i
                   /\ mapping[i].tmdb_id = NO_EXTRACT
                   /\ mapping[i].tmdb_id_man = DEFAULT
                   /\ metadata_lookup_ids \cap {NO_EXTRACT, DEFAULT} = {}
              ELSE Fresh(i) =>
                      /\ RowHas(i, "exact")
                      /\ mapping[i].tmdb_id # NO_EXTRACT
        /\ (\A i \in 1..Len(mapping) : Fresh(i) /\ ~RowMatches(i)) =>
              /\ metadata_lookup_ids = {}
              /\ \A j \in 1..Len(sent) : sent[j].kind # "movie"
              /\ tables = EmptyTables

\* C15: a run has fetched its metadata for a batch of one row that does not
\* match the pattern and one that does and was resolved to a catalog id.
C15_Witness ==
    /\ program = "Movieparse"
    /\ pc = "parsed"
    /\ Len(mapping) = 2
    /\ \E i, j \in 1..2 :
          /\ Fresh(i) /\ ~RowMatches(i) /\ mapping[i].tmdb_id = NO_EXTRACT
          /\ Fresh(j) /\ RowMatches(j) /\ mapping[j].tmdb_id \notin default_codes
          /\ mapping[j].tmdb_id \in metadata_lookup_ids

(***************************************************************************)
(* _guess_parsing_style on its own: the mapping of a fresh instance is set *)
(* from a movielist and the method is called.                              *)
(*   unit -> guessed | guess_raised                                        *)
(***************************************************************************)
GuessInputs == {S_A, S_B, S_Blank, S_Amp, S_Dash, S_Tail, S_NoYear}

InitGuess ==
    /\ program = "Movieparse"
    /\ pc = "unit"
    /\ movielist \in ListsUpTo(GuessInputs, MaxList) \ {<<>>}
    /\ mapping = FreshRows(movielist)
    /\ PARSING_STYLE = -1
    /\ cached_mapping = <<>>
    /\ FORCE_METADATA_UPDATE = FALSE
    /\ cached_metadata_ids = {}
    /\ disk = [f \in FileNames |-> NoFile]
    /\ runs = 0
    /\ error = "none"
    /\ STRICT = FALSE
    /\ FORCE_ID_UPDATE = FALSE
    /\ tables = EmptyTables
    /\ metadata_lookup_ids = {}
    /\ canon_ext = <<>>
    /\ tasks = <<>>
    /\ pending = {}
    /\ responses = <<>>
    /\ sent = <<>>
    /\ args = [parsing_style |-> -1, strict |-> FALSE]
    /\ library = GuessInputs
    /\ NoTAM

\* m._guess_parsing_style() on a Movieparse
call_guess_parsing_style ==
    /\ program = "Movieparse"
    /\ pc = "unit"
    /\ LET guess == guess_parsing_style(Column2Seq(mapping), PARSING_STYLE)
       IN /\ PARSING_STYLE' = guess.style
          /\ pc' = IF guess.raised THEN "guess_raised" ELSE "guessed"
          /\ error' = IF guess.raised
                      THEN "couldn't estimate a parsing style"
                      ELSE error
    /\ UNCHANGED <<disk, runs, STRICT, cached_mapping, mapping, tables,
                   metadata_lookup_ids, canon_ext, tasks, pending, responses,
                   sent, args, library, movielist, program, varsOld,
                   varsTAM>>

NextGuess == call_guess_parsing_style

SpecGuess == InitGuess /\ [][NextGuess]_vars

\* The number of title and year fields pattern k extracts from the batch.
FieldCount(k) == Matches(k, movielist)

\* The patterns whose count no other pattern exceeds.
BestPatterns ==
    {k \in PatternKeys : \A j \in PatternKeys : FieldCount(j) <= FieldCount(k)}

\* C16: _guess_parsing_style returns normally exactly when one pattern has a
\* count above zero that is strictly higher than the count of every other
\* pattern, and then that pattern is the selected one; when two or more
\* patterns share the highest count, or every count is zero, it raises.
C16_StrictMaximum ==
    /\ pc = "guessed" =>
          /\ BestPatterns = {PARSING_STYLE}
          /\ FieldCount(PARSING_STYLE) > 0
    /\ pc = "guess_raised" =>
          \/ Cardinality(BestPatterns) >= 2
          \/ \A k \in PatternKeys : FieldCount(k) = 0

\* C16: the method raised on a batch in which two patterns share a count
\* above zero.
C16_Witness ==
    /\ pc = "guess_raised"
    /\ Cardinality(BestPatterns) = 2
    /\ \E k \in BestPatterns : FieldCount(k) > 0

(***************************************************************************)
(* Movieparse: configuration errors.                                       *)
(***************************************************************************)
\* No pattern has a count on list that is above zero and above the count of
\* every other pattern.
Ambiguous(list) ==
    \A k \in PatternKeys :
        \/ Matches(k, list) = 0
        \/ \E j \in PatternKeys \ {k} : Matches(j, list) >= Matches(k, list)

\* C17: a call of parse_movielist with an empty list, or with a list on
\* which the auto-detection of an instance without a parsing style is
\* ambiguous, raises; and a call that raises has dispatched no request and
\* has left every file of the output location as it was.
C17_ErrorsBeforeWork ==
    [][(program = "Movieparse" /\ pc = "ready" /\ pc' # "ready") =>
          /\ (movielist' = <<>> \/ (PARSING_STYLE = -1 /\ Ambiguous(movielist')))
                => pc' = "raised"
          /\ pc' = "raised" =>
                /\ error' # "none"
                /\ sent' = <<>>
                /\ pending' = {}
                /\ disk' = disk]_vars

\* C17: the auto-detection raised on a batch in which two patterns share a
\* count above zero, on an output location that holds the files of an
\* earlier run.
C17_Witness ==
    /\ program = "Movieparse"
    /\ pc = "raised"
    /\ runs = 2
    /\ disk["mapping"].exists
    /\ disk["details"].exists
    /\ movielist # <<>>
    /\ \E k \in PatternKeys : Matches(k, movielist) > 0
    /\ sent = <<>>

(***************************************************************************)
(* The metadata fetch of each class on its own: the set of ids is given    *)
(* directly and the method is called, as tests/test_main.py and            *)
(* tests/test_movieparse.py do.                                            *)
(*   Movieparse:       unit -> metadata -> parsed                          *)
(*   movieparse:       unit -> parsed | raised                             *)
(*   TmdbAsyncMovies:  unit -> movie_details | credits -> fetched          *)
(***************************************************************************)
\* The ids a mapping can give to the metadata fetch of the two mapping
\* classes, and the ids handed to get_metadata.
MetadataIds == {IdA, IdB, IdGone}
get_metadata_args == {-1, 0, IdA, IdGone}

InitMetadata ==
    /\ program \in {"Movieparse", "movieparse", "TmdbAsyncMovies"}
    /\ pc = "unit"
    /\ metadata_lookup_ids \in
           (IF program = "TmdbAsyncMovies" THEN SUBSET get_metadata_args
            ELSE SUBSET MetadataIds)
    /\ disk = IF program = "TmdbAsyncMovies"
              THEN [f \in tam_FileNames |-> NoFile]
              ELSE [f \in FileNames |-> NoFile]
    /\ tables = IF program = "TmdbAsyncMovies"
                THEN [t \in tam_TableSet |-> EmptyBag]
                ELSE EmptyTables
    /\ runs = 0
    /\ error = "none"
    /\ STRICT = FALSE
    /\ FORCE_ID_UPDATE = FALSE
    /\ FORCE_METADATA_UPDATE = FALSE
    /\ PARSING_STYLE = 0
    /\ cached_mapping = <<>>
    /\ mapping = <<>>
    /\ movielist = <<>>
    /\ cached_metadata_ids = {}
    /\ canon_ext = <<>>
    /\ tasks = <<>>
    /\ pending = {}
    /\ responses = <<>>
    /\ sent = <<>>
    /\ args = [parsing_style |-> 0, strict |-> FALSE]
    /\ library = {}
    /\ NoTAM

\* asyncio.run(m._get_metadata()) on a Movieparse, up to as_completed
call_get_metadata ==
    /\ program = "Movieparse"
    /\ pc = "unit"
    /\ tasks' = MovieTasks(metadata_lookup_ids)
    /\ pending' = 1..Len(tasks')
    /\ responses' = <<>>
    /\ sent' = sent \o tasks'
    /\ pc' = "metadata"
    /\ UNCHANGED <<disk, runs, error, STRICT, PARSING_STYLE, cached_mapping,
                   mapping, tables, metadata_lookup_ids, canon_ext, args,
                   library, movielist, program, varsOld, varsTAM>>

\* m._get_metadata() on a movieparse
call_movieparse_get_metadata ==
    /\ program = "movieparse"
    /\ pc = "unit"
    /\ LET md == movieparse_get_metadata(tables,
                                         SortedSeq(metadata_lookup_ids))
       IN /\ tables' = md.tables
          /\ pc' = IF md.raised THEN "raised" ELSE "parsed"
          /\ error' = IF md.raised THEN "KeyError" ELSE error
    /\ UNCHANGED <<disk, runs, STRICT, PARSING_STYLE, cached_mapping,
                   mapping, metadata_lookup_ids, canon_ext, tasks, pending,
                   responses, sent, args, library, movielist, program,
                   varsOld, varsTAM>>

\* asyncio.run(t.get_metadata(kind, tmdb_ids)) on a TmdbAsyncMovies, up to
\* as_completed
tam_call_get_metadata(kind) ==
    /\ program = "TmdbAsyncMovies"
    /\ pc = "unit"
    /\ tasks' = get_metadata_tasks(metadata_lookup_ids, kind)
    /\ pending' = 1..Len(tasks')
    /\ responses' = <<>>
    /\ sent' = sent \o tasks'
    /\ pc' = kind
    /\ UNCHANGED <<disk, runs, error, STRICT, PARSING_STYLE, cached_mapping,
                   mapping, tables, metadata_lookup_ids, canon_ext, args,
                   library, movielist, program, varsOld, varsTAM>>

\* get_metadata returns once every request has been awaited
tam_get_metadata_returns ==
    /\ program = "TmdbAsyncMovies"
    /\ pc \in {"movie_details", "credits"}
    /\ pending = {}
    /\ tasks' = <<>>
    /\ responses' = <<>>
    /\ pc' = "fetched"
    /\ UNCHANGED <<disk, runs, error, STRICT, PARSING_STYLE, cached_mapping,
                   mapping, tables, metadata_lookup_ids, canon_ext, pending,
                   sent, args, library, movielist, program, varsOld,
                   varsTAM>>

NextMetadata ==
    \/ call_get_metadata
    \/ program = "Movieparse" /\ \E k \in pending : Complete(k)
    \/ FinishMetadata
    \/ call_movieparse_get_metadata
    \/ \E kind \in {"movie_details", "credits"} : tam_call_get_metadata(kind)
    \/ program = "TmdbAsyncMovies" /\ \E k \in pending : request_metadata(k)
    \/ tam_get_metadata_returns

SpecMetadata == InitMetadata /\ [][NextMetadata]_vars

\* C18: no detail or credits request is dispatched for an id that is not a
\* positive integer.
C18_PositiveOnly ==
    \A j \in 1..Len(sent) :
        sent[j].kind \in {"movie_details", "credits"} => sent[j].tmdb_id > 0

(***************************************************************************)
(* Movieparse: the rows of the metadata tables.                            *)
(***************************************************************************)
\* The ids of the lookup set whose document was fetched with success.
Fetched == {d \in metadata_lookup_ids : CatalogMovie(d).status = 200}

\* The number of rows of a table that carry the id d.
RowsOf(table, d) ==
    BagCardinality([r \in {x \in BagToSet(table) : x.tmdb_id = d}
                       |-> CopiesIn(r, table)])

\* The number of rows the document is to contribute to table c: one per
\* element of the array of that name, one for a collection that is not
\* null, one for the details.
Elements(c, doc) ==
    IF c = "details" THEN 1
    ELSE IF c = "collection"
    THEN (IF doc.belongs_to_collection THEN 1 ELSE 0)
    ELSE doc[c]

\* C19: when _get_metadata of a Movieparse has dissected its responses,
\* every table has gained, for each document fetched with success, exactly
\* the rows that document is to contribute, each carrying the id of the
\* document, and no other row has been added or removed.
C19_FlattenComplete ==
    [][(program = "Movieparse" /\ pc = "metadata" /\ pc' = "parsed") =>
          \A c \in TableSet :
              /\ \A d \in Fetched :
                    RowsOf(tables'[c], d)
                        = RowsOf(tables[c], d) + Elements(c, CatalogMovie(d))
              /\ \A r \in BagToSet(tables'[c]) \cup BagToSet(tables[c]) :
                    r.tmdb_id \notin Fetched =>
                        CopiesIn(r, tables'[c]) = CopiesIn(r, tables[c])]_vars

\* C19: a run has dissected the documents of a film that belongs to a
\* collection and of one that does not.
C19_Witness ==
    /\ program = "Movieparse"
    /\ pc = "parsed"
    /\ {IdA, IdB} \subseteq metadata_lookup_ids
    /\ RowsOf(tables["details"], IdA) = 1
    /\ RowsOf(tables["details"], IdB) = 1
    /\ RowsOf(tables["collection"], IdA) = 1
    /\ RowsOf(tables["collection"], IdB) = 0
    /\ RowsOf(tables["cast"], IdA) = 2

\* The metadata fetch of the instance has ended, normally or not.
FetchEnded == pc \in {"parsed", "raised", "fetched"}

\* The table that holds one row per document, for the fetch that was run.
OneRowTable ==
    IF program # "TmdbAsyncMovies" THEN "details"
    ELSE IF \E j \in 1..Len(sent) : sent[j].kind = "credits" THEN "cast"
    ELSE "movie_details"

\* C20: when the metadata fetch of any of the classes has ended, it has
\* raised no exception, no table holds a row for an id whose fetch failed,
\* and the documents fetched with success have contributed their rows.
C20_FailedFetchSkipped ==
    FetchEnded =>
        /\ pc # "raised"
        /\ error = "none"
        /\ \A d \in metadata_lookup_ids \ Fetched :
              \A c \in DOMAIN tables : RowsOf(tables[c], d) = 0
        /\ \A d \in Fetched :
              RowsOf(tables[OneRowTable], d)
                  = IF OneRowTable = "cast" THEN CatalogMovie(d).cast ELSE 1

(***************************************************************************)
(* write(): which files exist afterwards.                                  *)
(***************************************************************************)
WriteStep == pc = "parsed" /\ pc' = "written"

NoTableFile(d) == \A f \in TableSet : ~d[f].exists

PathMissing == "Can't write data as OUTPUT_PATH doesn't exist!"

\* a step of write(output_path)
tam_WriteStep ==
    /\ program = "TmdbAsyncMovies"
    /\ pc \in {"ready", "parsed"}
    /\ pc' = pc
    /\ output_path' # "none"

tam_InMemory == <<tables, canon_input, queries, first_pass_df, mapping>>

tam_AllWritten(d) ==
    \A f \in tam_FileNames :
        /\ d[f].exists
        /\ d[f].rows = IF f = "canon_input" THEN canon_input ELSE tables[f]

\* C22: write on a path that does not exist raises FileNotFoundError,
\* writes no file and leaves every in-memory table as it was; write on an
\* existing path writes all nine internal tables (canon_input and the
\* eight metadata tables), empty ones included.
C22_WriteFrame ==
    [][tam_WriteStep =>
          /\ tam_InMemory' = tam_InMemory
          /\ IF output_path' = "missing"
             THEN error' = PathMissing /\ disk' = disk
             ELSE /\ error' = "none"
                  /\ DOMAIN disk' = tam_FileNames
                  /\ Cardinality(tam_FileNames) = 9
                  /\ tam_AllWritten(disk')]_vars

\* a write on an existing path after a parse, followed by a write on a
\* missing one: the nine files and the tables are as the first write left them
C22_Witness ==
    /\ program = "TmdbAsyncMovies"
    /\ pc = "parsed"
    /\ error = PathMissing
    /\ output_path = "missing"
    /\ tables["movie_details"] # EmptyBag
    /\ canon_input # <<>>
    /\ tam_AllWritten(disk)

(***************************************************************************)
(* TmdbAsyncMovies.search_ids called on its own, on any frame, against a   *)
(* server whose answer to a title is any of the shapes of ResponseShapes.  *)
(*   unit -> search_ids -> returned | raised                               *)
(***************************************************************************)
SearchTitles == {<<"A">>, <<"B">>}
SearchYears == {-1, 1999}
SearchColumns == SUBSET {"title", "year"}
SearchRows ==
    UNION {[1..n -> [title : SearchTitles, year : SearchYears]] :
              n \in 0..MaxList}

\* bodies {"results": [...]} with two, one and no result, a 200 body
\* without "results", and a non-success status
ResponseShapes ==
    {[status |-> 200, has_results |-> TRUE, results |-> <<IdB, IdA>>],
     [status |-> 200, has_results |-> TRUE, results |-> <<IdA>>],
     [status |-> 200, has_results |-> TRUE, results |-> <<>>],
     [status |-> 200, has_results |-> FALSE, results |-> <<>>],
     [status |-> 404, has_results |-> FALSE, results |-> <<>>]}

InitSearch ==
    /\ program = "TmdbAsyncMovies"
    /\ pc = "unit"
    /\ args \in [canon_input : [columns : SearchColumns, rows : SearchRows],
                 server : [SearchTitles -> ResponseShapes]]
    /\ disk = [f \in tam_FileNames |-> NoFile]
    /\ tables = [t \in tam_TableSet |-> EmptyBag]
    /\ runs = 0
    /\ error = "none"
    /\ STRICT = FALSE
    /\ FORCE_ID_UPDATE = FALSE
    /\ FORCE_METADATA_UPDATE = FALSE
    /\ PARSING_STYLE = 0
    /\ cached_mapping = <<>>
    /\ mapping = <<>>
    /\ movielist = <<>>
    /\ metadata_lookup_ids = {}
    /\ cached_metadata_ids = {}
    /\ canon_ext = <<>>
    /\ tasks = <<>>
    /\ pending = {}
    /\ responses = <<>>
    /\ sent = <<>>
    /\ library = {}
    /\ NoTAM

\* A guard that looks at the rows only.
search_ids_returns_early_rows_only(frame) == frame.rows = <<>>

\* canon_input.empty or {"title", "year"}.issubset(canon_input.columns) is False
search_ids_returns_early(frame) ==
    \/ frame.rows = <<>>
    \/ frame.columns = {}
    \/ ~({"title", "year"} \subseteq frame.columns)

\* asyncio.run(t.search_ids(canon_input)) up to as_completed
call_search_ids ==
    /\ program = "TmdbAsyncMovies"
    /\ pc = "unit"
    /\ IF search_ids_returns_early(args.canon_input)
       THEN /\ search_results' = <<>>
            /\ pc' = "returned"
            /\ UNCHANGED <<tasks, pending, responses, sent>>
       ELSE /\ tam_Dispatch(args.canon_input.rows, "search_ids", sent)
            /\ pc' = "search_ids"
            /\ UNCHANGED search_results
    /\ UNCHANGED <<disk, runs, error, STRICT, PARSING_STYLE, cached_mapping,
                   mapping, tables, metadata_lookup_ids, canon_ext, args,
                   library, movielist, program, varsOld, naming_convention,
                   backup_call, canon_input, queries, first_pass_df,
                   output_path>>

\* as_completed yields the _request_id of task k: its frame is kept, or
\* its exception leaves search_ids
await_request_id(k) ==
    /\ program = "TmdbAsyncMovies"
    /\ pc = "search_ids"
    /\ k \in pending
    /\ pending' = pending \ {k}
    /\ LET out == request_id_response(args.server[tasks[k].query])
       IN IF out.raised = "none"
          THEN /\ responses' = Append(responses, k)
               /\ UNCHANGED <<pc, error>>
          ELSE /\ pc' = "raised"
               /\ error' = out.raised
               /\ UNCHANGED responses
    /\ UNCHANGED <<disk, runs, STRICT, PARSING_STYLE, cached_mapping,
                   mapping, tables, metadata_lookup_ids, canon_ext, tasks,
                   sent, args, library, movielist, program, varsOld,
                   varsTAM>>

\* the frames of the responses concatenated, reset_index(drop=True)
search_ids_returns ==
    /\ program = "TmdbAsyncMovies"
    /\ pc = "search_ids"
    /\ pending = {}
    /\ search_results' =
           [j \in 1..Len(responses) |->
               LET t == tasks[responses[j]]
               IN [tmdb_id |-> request_id_response(args.server[t.query]).tmdb_id,
                   url |-> RequestUrl(t.query, t.year)]]
    /\ pc' = "returned"
    /\ UNCHANGED <<disk, runs, error, STRICT, PARSING_STYLE, cached_mapping,
                   mapping, tables, metadata_lookup_ids, canon_ext, tasks,
                   pending, responses, sent, args, library, movielist,
                   program, varsOld, naming_convention, backup_call,
                   canon_input, queries, first_pass_df, output_path>>

NextSearch ==
    \/ call_search_ids
    \/ \E k \in pending : await_request_id(k)
    \/ search_ids_returns

SpecSearch == InitSearch /\ [][NextSearch]_vars

\* the response to the request of task k
ResponseOf(k) == args.server[tasks[k].query]

Usable(resp) ==
    resp.status = 200 /\ resp.has_results /\ resp.results # <<>>

\* C24: _request_id never raises; it returns -1 for a response that is
\* malformed (status other than 200, or a body without a usable results
\* list) and for a query without results, and the id of the first result
\* otherwise.
C24_MalformedIsMinusOne ==
    /\ program = "TmdbAsyncMovies" => pc # "raised"
    /\ (program = "TmdbAsyncMovies" /\ pc = "returned") =>
          \A j \in 1..Len(search_results) :
              search_results[j].tmdb_id =
                  IF Usable(ResponseOf(responses[j]))
                  THEN ResponseOf(responses[j]).results[1]
                  ELSE -1

\* the url has a year parameter
HasYearParam(url) ==
    \E i \in 1..(Len(url) - Len(YearMark) + 1) :
        SubSeq(url, i, i + Len(YearMark) - 1) = YearMark

\* the row of the frame that the j-th returned result was requested for
RowOfResult(j) == args.canon_input.rows[tasks[responses[j]].row]

\* C25: the search request of a row carries a year constraint if and only
\* if the row's year is not -1; with year -1 the request is the title-only
\* one, and otherwise the constraint is the row's year.
C25_YearIffNotMinusOne ==
    (program = "TmdbAsyncMovies" /\ pc = "returned") =>
        \A j \in 1..Len(search_results) :
            LET row == RowOfResult(j)
                url == search_results[j].url
            IN /\ HasYearParam(url) <=> row.year # -1
               /\ row.year = -1 => url = RequestUrl(row.title, -1)
               /\ row.year # -1 =>
                     url = BaseUrl \o QueryMark \o QueryQuote(row.title)
                               \o YearMark \o IntToStr(row.year)

C25_Witness ==
    /\ program = "TmdbAsyncMovies"
    /\ pc = "returned"
    /\ \E j, k \in 1..Len(search_results) :
          /\ RowOfResult(j).year = -1
          /\ ~HasYearParam(search_results[j].url)
          /\ RowOfResult(k).year = 1999
          /\ HasYearParam(search_results[k].url)

\* C27: search_ids on a frame without rows, or without the title and year
\* columns, returns the empty frame and dispatches no request.
C27_EmptyFrameNoRequest ==
    [][(/\ program = "TmdbAsyncMovies"
        /\ pc = "unit"
        /\ pc' # "unit"
        /\ \/ args.canon_input.rows = <<>>
           \/ ~({"title", "year"} \subseteq args.canon_input.columns)) =>
          /\ pc' = "returned"
          /\ search_results' = <<>>
          /\ sent' = <<>>
          /\ tasks' = <<>>
          /\ pending' = {}
          /\ error' = "none"]_vars

C27_Witness ==
    /\ program = "TmdbAsyncMovies"
    /\ pc = "returned"
    /\ args.canon_input.rows # <<>>
    /\ args.canon_input.columns = {"year"}
    /\ search_results = <<>>
    /\ sent = <<>>

(***************************************************************************)
(* movieparse: instances on two output locations in one process.           *)
(***************************************************************************)
\* another output location, whose details.csv holds the row of one id
ElsewhereDisk ==
    [f \in FileNames |->
        IF f = "details"
        THEN [exists |-> TRUE,
              rows |-> SetToBag({[tmdb_id |-> IdA, k |-> 1]})]
        ELSE NoFile]

\* movieparse(movie_list, output_path=<the other location>): _read_existing
\* adds the ids of that location's tables to the set that the class holds
movieparse_init_elsewhere ==
    /\ program = "movieparse"
    /\ pc = "none"
    /\ cached_metadata_ids' = cached_metadata_ids \cup TableIds(ElsewhereDisk)
    /\ cached_metadata_ids' # cached_metadata_ids
    /\ UNCHANGED <<varsMP, program, FORCE_ID_UPDATE, FORCE_METADATA_UPDATE,
                   varsTAM>>

NextCache == NextOld \/ movieparse_init_elsewhere

SpecCache == InitOld /\ [][NextCache]_vars

\* C23: after a movieparse instance is constructed on an output location,
\* its cached_metadata_ids is exactly the union of the tmdb_id columns of
\* the metadata tables persisted at that location (empty when there are
\* none), whatever instances were constructed before in the process.
C23_CacheIsLocation ==
    (program = "movieparse" /\ pc = "ready") =>
        cached_metadata_ids = TableIds(disk)

\* the rows carry pairwise different canonical inputs, and every entry of
\* the movielist has its row
OneRowPerInput(m, list) ==
    /\ \A i, j \in 1..Len(m) :
          m[i].canonical_input = m[j].canonical_input => i = j
    /\ \A x \in 1..Len(list) :
          \E i \in 1..Len(m) : m[i].canonical_input = list[x]

\* C26: from the end of ID resolution to the end of the run, mapping.csv
\* holds exactly the in-memory mapping, one row per canonical input, whether
\* or not metadata was fetched and whether or not write was called.
C26_MappingPersisted ==
    (program = "Movieparse" /\ pc \in {"metadata", "parsed", "written"}) =>
        /\ disk["mapping"].exists
        /\ disk["mapping"].rows = mapping
        /\ OneRowPerInput(mapping, movielist)

\* ID resolution is over, nothing was fetched and write was not called
C26_Witness ==
    /\ program = "Movieparse"
    /\ pc = "parsed"
    /\ mapping # <<>>
    /\ metadata_lookup_ids = {}
    /\ sent # <<>>
    /\ \A f \in TableSet : tables[f] = EmptyBag /\ ~disk[f].exists
    /\ disk["mapping"].exists
    /\ disk["mapping"].rows = mapping

(***************************************************************************)
(* One Movieparse run under a collaborator that resolves every request:    *)
(* each request in flight completes, and the coroutine that awaits a batch *)
(* runs on once the batch is complete.                                     *)
(***************************************************************************)
\* a step of the run in progress: a request resolves, or the coroutine
\* that awaited the batch goes on
RunStep ==
    \/ \E k \in pending : Complete(k)
    \/ FinishExact
    \/ FinishBackup
    \/ FinishMetadata

\* one run of one instance, from construction to write
NextRun ==
    \/ Construct(args.parsing_style, args.strict)
    \/ pc = "ready" /\ \E list \in Movielists(library) : parse_movielist(list)
    \/ RunStep
    \/ write

SpecMPLive == InitMP /\ [][NextRun]_vars /\ WF_vars(RunStep)

\* the requests of kind `kind` that the run has sent for row i
SentFor(i, kind) ==
    {k \in 1..Len(sent) : sent[k].row = i /\ sent[k].kind = kind}

\* at most one exact and one title-only search per mapping row, none for
\* anything else, and one fetch per lookup ID
BoundedRequests ==
    /\ \A k \in 1..Len(sent) :
          \/ sent[k].kind = "movie" /\ sent[k].tmdb_id \in metadata_lookup_ids
          \/ /\ sent[k].kind \in {"exact", "title_only"}
             /\ sent[k].row \in 1..Len(mapping)
    /\ \A i \in 1..Len(mapping) :
          /\ Cardinality(SentFor(i, "exact")) <= 1
          /\ Cardinality(SentFor(i, "title_only")) <= 1
          /\ Len(RowRequests(i)) <= 2
    /\ \A id \in metadata_lookup_ids :
          Cardinality({k \in 1..Len(sent) :
                          sent[k].kind = "movie" /\ sent[k].tmdb_id = id}) = 1

RunFinished ==
    /\ pc = "parsed"
    /\ pending = {}
    /\ tasks = <<>>
    /\ BoundedRequests

\* C28: when every dispatched request resolves, a Movieparse run that has
\* dispatched its exact pass finishes (exact pass, fallback pass if any and
\* metadata batch complete) with no request pending, having sent at most
\* two searches per mapping row and one fetch per lookup ID.
C28_RunTerminates ==
    (program = "Movieparse" /\ pc = "ids_exact") ~> RunFinished

\* a finished run that went through both passes and a fetch
C28_Witness ==
    /\ RunFinished
    /\ \E i \in 1..Len(mapping) : Len(RowRequests(i)) = 2
    /\ \E k \in 1..Len(sent) : sent[k].kind = "movie"

(***************************************************************************)
(* The accumulating tables during a metadata batch.                        *)
(***************************************************************************)
InBatch == pc \in {"metadata", "movie_details", "credits"}

\* the rows that the document of a successful response adds to table c
tam_DocRows(c, doc) ==
    SetToBag({[tmdb_id |-> doc.id, k |-> j] : j \in 1..tam_RowCount(c, doc)})
DocRows(c, doc) ==
    SetToBag({[tmdb_id |-> doc.id, k |-> j] : j \in 1..RowCount(c, doc)})

\* the tables of the get_metadata call in progress
tam_BatchTables ==
    IF pc = "credits" THEN {"cast", "crew"} ELSE tam_TableSet \ {"cast", "crew"}

\* the successful documents among the responses of the batch
BatchDocs ==
    {CatalogMovie(tasks[k].tmdb_id) : k \in 1..Len(tasks)} \
        {d \in {CatalogMovie(tasks[k].tmdb_id) : k \in 1..Len(tasks)} :
            d.status # 200}

\* C29: during a metadata batch the tables only grow.  In TmdbAsyncMovies
\* the coroutine that completes adds exactly the rows of its document to the
\* tables of its call, in Movieparse the end of the batch adds the rows of
\* every successful document, whatever the order of completion; rows that
\* a table held before are all still there, and at the end of the batch
\* every table holds the rows of every successful response.
C29_AppendOnly ==
    [][(InBatch /\ program \in {"Movieparse", "TmdbAsyncMovies"}) =>
          /\ \A c \in DOMAIN tables : tables[c] \sqsubseteq tables'[c]
          /\ program = "TmdbAsyncMovies" =>
                /\ \A k \in pending \ pending' :
                      LET doc == CatalogMovie(tasks[k].tmdb_id)
                      IN \A c \in tam_TableSet :
                            tables'[c] (-) tables[c] =
                                IF c \in tam_BatchTables /\ doc.status = 200
                                THEN tam_DocRows(c, doc)
                                ELSE EmptyBag
                /\ (pc = "credits" /\ pc' = "parsed") =>
                      \A doc \in BatchDocs : \A c \in tam_TableSet :
                          tam_DocRows(c, doc) \sqsubseteq tables'[c]
          /\ program = "Movieparse" =>
                /\ pc' = "metadata" => tables' = tables
                /\ pc' = "parsed" =>
                      \A c \in TableSet :
                          /\ \A doc \in BatchDocs :
                                DocRows(c, doc) \sqsubseteq
                                    (tables'[c] (-) tables[c])
                          /\ BagCardinality(tables'[c] (-) tables[c]) =
                                BagCardinality(
                                    BagUnion({DocRows(c, doc) :
                                                 doc \in BatchDocs}))]_vars

\* two coroutines of one get_metadata call have completed, in the order
\* opposite to that of their dispatch, and the rows of both are in a table
C29_Witness ==
    /\ program = "TmdbAsyncMovies"
    /\ pc = "movie_details"
    /\ Len(responses) >= 2
    /\ responses[1] > responses[2]
    /\ \A j \in 1..2 :
          LET doc == CatalogMovie(tasks[responses[j]].tmdb_id)
          IN doc.status = 200 /\ tam_DocRows("genres", doc) \sqsubseteq tables["genres"]

\* a title that the HTTP client sends as it is
PlainTitle(title) ==
    \A i \in 1..Len(title) : title[i] \in Unreserved \cup {" "}

\* C30: in a batch of pairwise distinct queries whose titles need no
\* quoting, in any positions, every query that does not match the naming
\* convention ends with tmdb_id -1 and no search is sent for it, and every
\* matching query ends with the id returned for its own title and year.
C30_MixedBatch ==
    (/\ tam_IdsResolved
     /\ \A i, j \in 1..Len(queries) : queries[i] = queries[j] => i = j
     /\ \A i \in 1..Len(canon_input) : PlainTitle(canon_input[i].title))
        => /\ \A i \in 1..Len(canon_input) :
                 canon_input[i].tmdb_id =
                     IF canon_input[i].title = NoTitle THEN -1
                     ELSE OwnId(canon_input[i])
           /\ \A k \in 1..Len(sent) :
                 sent[k].kind \in {"first_pass", "second_pass"} =>
                     sent[k].query # NanStr

(***************************************************************************)
(* TmdbAsyncMovies.generic_parse on batches of up to MaxList + 1 queries,  *)
(* so that a repeated query can stand beside a different one.              *)
(***************************************************************************)
NextRepeat ==
    \/ tam_init(args)
    \/ pc \in {"ready", "parsed"}
          /\ \E qs \in ListsUpTo(library, MaxList + 1) \ {<<>>} :
                generic_parse(qs)
    \/ \E k \in pending : Complete(k)
    \/ tam_FinishFirstPass
    \/ tam_FinishSecondPass
    \/ \E k \in pending : request_metadata(k)
    \/ tam_FinishDetails
    \/ tam_FinishCredits

SpecRepeat == InitTAM /\ [][NextRepeat]_vars

\* the batch repeats a query, or two of its rows share a title
Repeats ==
    \E i, j \in 1..Len(canon_input) :
        i # j /\ canon_input[i].title = canon_input[j].title

\* C31: in a batch of matching queries with plain titles in which a query
\* or a title occurs more than once, canon_input keeps one row per input
\* query, in input order, and every row ends with the id returned for its
\* own title and year.
C31_RepeatedQueries ==
    (/\ tam_IdsResolved
     /\ Repeats
     /\ \A i \in 1..Len(canon_input) :
           /\ canon_input[i].title # NoTitle
           /\ PlainTitle(canon_input[i].title))
        => /\ Len(canon_input) = Len(queries)
           /\ \A i \in 1..Len(canon_input) :
                 /\ canon_input[i].query = queries[i]
                 /\ canon_input[i].tmdb_id = OwnId(canon_input[i])

(***************************************************************************)
(* search_ids of the list-returning variants (src/src/tmdbasyncmovies,     *)
(* src/src/tmdbasync), called on any frame.                                *)
(*   unit -> search_ids -> returned | raised                               *)
(***************************************************************************)
InitList ==
    /\ program = "tmdbasyncmovies"
    /\ pc = "unit"
    /\ args \in [canon_input : [columns : SearchColumns, rows : SearchRows],
                 server : [SearchTitles -> ResponseShapes]]
    /\ disk = [f \in tam_FileNames |-> NoFile]
    /\ tables = [t \in tam_TableSet |-> EmptyBag]
    /\ runs = 0
    /\ error = "none"
    /\ STRICT = FALSE
    /\ FORCE_ID_UPDATE = FALSE
    /\ FORCE_METADATA_UPDATE = FALSE
    /\ PARSING_STYLE = 0
    /\ cached_mapping = <<>>
    /\ mapping = <<>>
    /\ movielist = <<>>
    /\ metadata_lookup_ids = {}
    /\ cached_metadata_ids = {}
    /\ canon_ext = <<>>
    /\ tasks = <<>>
    /\ pending = {}
    /\ responses = <<>>
    /\ sent = <<>>
    /\ library = {}
    /\ NoTAM

\* search_ids up to as_completed: one session.get per row, in row order
list_call_search_ids ==
    /\ program = "tmdbasyncmovies"
    /\ pc = "unit"
    /\ IF search_ids_returns_early(args.canon_input)
       THEN /\ search_results' = <<>>
            /\ pc' = "returned"
            /\ UNCHANGED <<tasks, pending, responses, sent>>
       ELSE /\ tam_Dispatch(args.canon_input.rows, "search_ids", sent)
            /\ pc' = "search_ids"
            /\ UNCHANGED search_results
    /\ UNCHANGED <<disk, runs, error, STRICT, PARSING_STYLE, cached_mapping,
                   mapping, tables, metadata_lookup_ids, canon_ext, args,
                   library, movielist, program, varsOld, naming_convention,
                   backup_call, canon_input, queries, first_pass_df,
                   output_path>>

\* as_completed yields the response of task k
list_await(k) ==
    /\ program = "tmdbasyncmovies"
    /\ pc = "search_ids"
    /\ k \in pending
    /\ pending' = pending \ {k}
    /\ responses' = Append(responses, k)
    /\ UNCHANGED <<disk, runs, pc, error, STRICT, PARSING_STYLE,
                   cached_mapping, mapping, tables, metadata_lookup_ids,
                   canon_ext, tasks, sent, args, library, movielist, program,
                   varsOld, varsTAM>>

\* for response in responses: results.append(tmdb_id)
list_results(tsk, resps, server) ==
    [j \in 1..Len(resps) |->
        request_id_response(server[tsk[resps[j]].query])]

\* the loop over the responses, then return results
list_search_ids_returns ==
    /\ program = "tmdbasyncmovies"
    /\ pc = "search_ids"
    /\ pending = {}
    /\ LET out == list_results(tasks, responses, args.server)
       IN IF \E j \in 1..Len(out) : out[j].raised # "none"
          THEN /\ pc' = "raised"
               /\ error' = "KeyError"
               /\ UNCHANGED search_results
          ELSE /\ search_results' = [j \in 1..Len(out) |-> out[j].tmdb_id]
               /\ pc' = "returned"
               /\ UNCHANGED error
    /\ UNCHANGED <<disk, runs, STRICT, PARSING_STYLE, cached_mapping,
                   mapping, tables, metadata_lookup_ids, canon_ext, tasks,
                   pending, responses, sent, args, library, movielist,
                   program, varsOld, naming_convention, backup_call,
                   canon_input, queries, first_pass_df, output_path>>

NextList ==
    \/ list_call_search_ids
    \/ \E k \in pending : list_await(k)
    \/ list_search_ids_returns

SpecList == InitList /\ [][NextList]_vars

\* C32: the list that search_ids returns has one id per row of the frame,
\* and its i-th element is the id derived from the response to the request
\* of row i, whatever the order in which the requests completed.
C32_PositionalIds ==
    (/\ program = "tmdbasyncmovies"
     /\ pc = "returned"
     /\ ~search_ids_returns_early(args.canon_input))
        => /\ Len(search_results) = Len(args.canon_input.rows)
           /\ \A i \in 1..Len(search_results) :
                 search_results[i] =
                     request_id_response(
                         args.server[args.canon_input.rows[i].title]).tmdb_id

(***************************************************************************)
(* The columns of the details row.  A document is its top-level keys, the  *)
(* keys whose value is None and the keys left in its credits object; in    *)
(* this specification tables[t] is the column set of frame t.              *)
(***************************************************************************)
NestedFields ==
    {"belongs_to_collection", "genres", "production_companies",
     "production_countries", "spoken_languages", "credits"}
ScalarFields == {"title", "adult", "budget"}

\* response.json() of the movie endpoint; append_to_response=credits adds
\* the credits object
Documents(with_credits) ==
    [keys : {({"id"} \cup s \cup NestedFields)
                \ (IF with_credits THEN {} ELSE {"credits"}) :
                s \in SUBSET ScalarFields},
     none : {{}, {"belongs_to_collection"}},
     credits : {IF with_credits THEN {"cast", "crew"} ELSE {}},
     id : {IdA, IdB, IdAmp}]

\* dict.pop(k)
Pop(doc, k) == [doc EXCEPT !.keys = @ \ {k}, !.none = @ \ {k}]
\* doc[k] = None
SetNone(doc, k) == [doc EXCEPT !.keys = @ \cup {k}, !.none = @ \cup {k}]

\* pd.json_normalize(doc).columns: one column per key, None valued or not;
\* a nested object gives one dotted column per key left in it
json_normalize(doc) ==
    (doc.keys \ {"credits"})
        \cup (IF "credits" \in doc.keys
              THEN {IF c = "cast" THEN "credits.cast" ELSE "credits.crew" :
                       c \in doc.credits}
              ELSE {})

\* the keys of _metadata(), in the order of the dictionary
MetadataOrder ==
    <<"cast", "collection", "crew", "genres", "production_companies",
      "production_countries", "spoken_languages", "details">>

\* _dissect_metadata_response: the loop over _metadata().items(), after
\* tmdb_id = response.pop("id")
RECURSIVE DissectLoop(_, _, _)
DissectLoop(doc, order, cols) ==
    IF order = <<>> THEN [response |-> doc, details |-> cols]
    ELSE LET c == Head(order)
         IN CASE c \in {"cast", "crew"} ->
                   DissectLoop([doc EXCEPT !.credits = @ \ {c}],
                               Tail(order), cols)
              [] c = "collection" ->
                   DissectLoop(Pop(doc, "belongs_to_collection"),
                               Tail(order), cols)
              [] c = "details" ->
                   DissectLoop(doc, Tail(order),
                               json_normalize(doc) \cup {"tmdb_id"})
              [] OTHER ->
                   DissectLoop(Pop(doc, c), Tail(order), cols)

\* _request_details: the body under response.status == 200
request_details_columns(doc) ==
    LET r1 == SetNone(doc, "belongs_to_collection")
        r2 == SetNone(r1, "genres")
        r3 == SetNone(r2, "production_companies")
        r4 == SetNone(r3, "production_countries")
        r5 == SetNone(r4, "spoken_languages")
        r6 == [Pop(r5, "id") EXCEPT !.keys = @ \cup {"tmdb_id"}]
    IN [response |-> r6, details |-> json_normalize(r6)]

InitDissect ==
    /\ program \in {"Movieparse", "TmdbAsyncMovies"}
    /\ pc = "unit"
    /\ args \in [response : Documents(program = "Movieparse")]
    /\ disk = IF program = "TmdbAsyncMovies"
              THEN [f \in tam_FileNames |-> NoFile]
              ELSE [f \in FileNames |-> NoFile]
    /\ tables = IF program = "TmdbAsyncMovies"
                THEN [t \in tam_TableSet |-> {}]
                ELSE [t \in TableSet |-> {}]
    /\ runs = 0
    /\ error = "none"
    /\ STRICT = FALSE
    /\ FORCE_ID_UPDATE = FALSE
    /\ FORCE_METADATA_UPDATE = FALSE
    /\ PARSING_STYLE = 0
    /\ cached_mapping = <<>>
    /\ mapping = <<>>
    /\ movielist = <<>>
    /\ metadata_lookup_ids = {}
    /\ cached_metadata_ids = {}
    /\ canon_ext = <<>>
    /\ tasks = <<>>
    /\ pending = {}
    /\ responses = <<>>
    /\ sent = <<>>
    /\ library = {}
    /\ NoTAM

\* m._dissect_metadata_response(response) on a Movieparse
call_dissect_metadata_response ==
    /\ program = "Movieparse"
    /\ pc = "unit"
    /\ LET out == DissectLoop(Pop(args.response, "id"), MetadataOrder, {})
       IN /\ args' = [args EXCEPT !.response = out.response]
          /\ tables' = [tables EXCEPT !["details"] = out.details]
    /\ pc' = "dissected"
    /\ UNCHANGED <<disk, runs, error, STRICT, PARSING_STYLE, cached_mapping,
                   mapping, metadata_lookup_ids, canon_ext, tasks, pending,
                   responses, sent, library, movielist, program, varsOld,
                   varsTAM>>

\* _request_details of a TmdbAsyncMovies on a response of status 200
call_request_details ==
    /\ program = "TmdbAsyncMovies"
    /\ pc = "unit"
    /\ LET out == request_details_columns(args.response)
       IN /\ args' = [args EXCEPT !.response = out.response]
          /\ tables' = [tables EXCEPT !["movie_details"] = out.details]
    /\ pc' = "dissected"
    /\ UNCHANGED <<disk, runs, error, STRICT, PARSING_STYLE, cached_mapping,
                   mapping, metadata_lookup_ids, canon_ext, tasks, pending,
                   responses, sent, library, movielist, program, varsOld,
                   varsTAM>>

NextDissect ==
    \/ call_dissect_metadata_response
    \/ call_request_details

SpecDissect == InitDissect /\ [][NextDissect]_vars

\* The columns of the details row of the dissected document.
DetailsColumns ==
    IF program = "TmdbAsyncMovies" THEN tables["movie_details"]
    ELSE tables["details"]

\* C33: the details row produced for a document has none of the nested
\* fields (belongs_to_collection, genres, production_companies,
\* production_countries, spoken_languages, credits with cast and crew)
\* among its columns.
C33_NoNestedColumns ==
    pc = "dissected"
        => DetailsColumns \cap (NestedFields
                                   \cup {"credits.cast", "credits.crew",
                                         "cast", "crew"}) = {}

\* C34: a search is issued for a mapping row in a run only if its tmdb_id
\* is the DEFAULT sentinel (0) or force-refresh is set; a Movieparse has no
\* force-refresh setting, so every row of its exact pass has tmdb_id 0.
C34_SearchOnlyDefault ==
    (program = "Movieparse" /\ pc = "ids_exact")
        => \A k \in 1..Len(tasks) :
              \/ mapping[tasks[k].row].tmdb_id = DEFAULT
              \/ FORCE_ID_UPDATE

(***************************************************************************)
(* Movieparse on an output directory that already holds a mapping.csv, as  *)
(* the mapping_stub fixture writes one: rows with tmdb_id 0 among them.    *)
(***************************************************************************)
MappingStubs ==
    {<<[input |-> c, canonical_input |-> c, tmdb_id |-> t,
        tmdb_id_man |-> man]>> :
        c \in {S_B, S_NoYear}, t \in {DEFAULT, IdB},
        man \in {DEFAULT, IdManual}}

InitStub ==
    /\ disk \in {[f \in FileNames |->
                     IF f = "mapping" THEN [exists |-> TRUE, rows |-> stub]
                     ELSE NoFile] : stub \in MappingStubs}
    /\ runs = 0
    /\ pc = "none"
    /\ error = "none"
    /\ program = "Movieparse"
    /\ args \in [parsing_style : ParsingStyles, strict : BOOLEAN]
    /\ library \in Libraries
    /\ cached_metadata_ids = {}
    /\ NoInstance

SpecStub == InitStub /\ [][NextRun]_vars

\* C35: after ID resolution no mapping row is left with tmdb_id = DEFAULT
\* (0): each row that needed lookup, fresh or loaded from the cache, ends
\* with a catalog ID, NO_RESULT, NO_EXTRACT or BAD_RESPONSE, a cached row
\* with tmdb_id 0 whose canonical_input does not match ending as NO_EXTRACT.
C35_NoDefaultLeft ==
    (program = "Movieparse" /\ pc \in {"metadata", "parsed", "written"})
        => \A i \in 1..Len(mapping) : mapping[i].tmdb_id # DEFAULT

\* Two rows that differ at most in tmdb_id.
SameButTmdbId(a, b) ==
    [a EXCEPT !.tmdb_id = DEFAULT] = [b EXCEPT !.tmdb_id = DEFAULT]

\* before and after are the same rows in the same order, and only rows of
\* the set needed differ in tmdb_id
OnlyTmdbIdOf(before, after, needed) ==
    /\ Len(after) = Len(before)
    /\ \A i \in 1..Len(before) :
          /\ SameButTmdbId(before[i], after[i])
          /\ after[i].tmdb_id # before[i].tmdb_id => i \in needed

\* C36: ID resolution changes only the tmdb_id column of rows that need
\* lookup: every pass of _get_ids_async, and _get_ids of movieparse, leaves
\* the number and order of the mapping rows and their input,
\* canonical_input and tmdb_id_man as they were, and the tmdb_id of every
\* row that does not need lookup.
C36_ResolutionFrame ==
    [][/\ (program = "Movieparse" /\ pc \in {"ids_exact", "ids_backup"}
              /\ pc' # pc)
          => OnlyTmdbIdOf(mapping, mapping', needed_lookups(mapping))
       /\ (program = "movieparse" /\ pc = "ready" /\ pc' = "parsed")
          => LET before == movieparse_update_mapping(
                               cached_mapping,
                               movieparse_create_mapping(movielist))
             IN OnlyTmdbIdOf(before, mapping',
                             {i \in 1..Len(before) :
                                 \/ before[i].tmdb_id = DEFAULT
                                 \/ FORCE_ID_UPDATE})]_vars

\* Ids are resolved on a mapping that holds a cached row with a catalog id
\* and a fresh row that was given one in this run.
C36_Witness ==
    /\ program = "Movieparse"
    /\ pc = "metadata"
    /\ \E i \in 1..Len(cached_mapping) :
          /\ cached_mapping[i].tmdb_id \notin default_codes
          /\ mapping[i] = cached_mapping[i]
    /\ \E j \in (Len(cached_mapping) + 1)..Len(mapping) :
          mapping[j].tmdb_id \notin default_codes

\* The rows of canon_input whose first pass gave -1.
FirstPassMisses == {i \in 1..Len(canon_input) :
                       canon_input[i].tmdb_id_first_pass = -1}

\* C37: in TmdbAsyncMovies.generic_parse the second pass sends one
\* title-only request per row whose first pass gave -1 and none for any
\* other row; a first-pass id other than -1 is the final tmdb_id; when
\* generic_parse has returned, tmdb_id is the first-pass id where that is
\* not -1 and the second-pass id otherwise; with backup_call off no
\* second-pass request is sent, tmdb_id_second_pass is -1 on every row and
\* tmdb_id equals tmdb_id_first_pass.
C37_FallbackOnlyOnMiss ==
    program = "TmdbAsyncMovies" =>
        /\ pc = "second_pass" =>
              /\ backup_call
              /\ Len(tasks) = Cardinality(FirstPassMisses)
              /\ \A k \in 1..Len(tasks) :
                    /\ tasks[k].year = -1
                    /\ \E i \in FirstPassMisses :
                          tasks[k].query =
                              (IF canon_input[i].title = NoTitle THEN NanStr
                               ELSE canon_input[i].title)
        /\ ~backup_call =>
              \A k \in 1..Len(sent) : sent[k].kind # "second_pass"
        /\ pc \in {"movie_details", "credits", "parsed"} =>
              \A i \in 1..Len(canon_input) :
                 /\ canon_input[i].tmdb_id_first_pass \notin {-1, NaN}
                       => canon_input[i].tmdb_id
                              = canon_input[i].tmdb_id_first_pass
                 /\ ~backup_call => canon_input[i].tmdb_id_second_pass = -1
        /\ pc = "parsed" =>
              \A i \in 1..Len(canon_input) :
                 /\ canon_input[i].tmdb_id =
                       (IF canon_input[i].tmdb_id_first_pass # -1
                        THEN canon_input[i].tmdb_id_first_pass
                        ELSE canon_input[i].tmdb_id_second_pass)
                 /\ ~backup_call => canon_input[i].tmdb_id
                                       = canon_input[i].tmdb_id_first_pass

\* generic_parse has returned with the fallback on: one row kept its
\* first-pass id although the fallback found an id for its title, another
\* row was resolved by the fallback.
C37_Witness ==
    /\ program = "TmdbAsyncMovies"
    /\ pc = "parsed"
    /\ backup_call
    /\ \E i \in 1..Len(canon_input) :
          /\ canon_input[i].tmdb_id_first_pass \notin {-1, NaN}
          /\ canon_input[i].tmdb_id_second_pass \notin {-1, NaN}
    /\ \E i \in 1..Len(canon_input) :
          /\ canon_input[i].tmdb_id_first_pass = -1
          /\ canon_input[i].tmdb_id \notin {-1, NaN}

\* the fetches that the run has dispatched for the id
FetchesOf(id) ==
    {k \in 1..Len(sent) : sent[k].kind = "movie" /\ sent[k].tmdb_id = id}

\* the catalog ids in the tmdb_id and tmdb_id_man cells of the mapping
MappingCatalogIds ==
    {mapping[i].tmdb_id : i \in 1..Len(mapping)}
        \cup {mapping[i].tmdb_id_man : i \in 1..Len(mapping)}

\* the details row of the id
DetailsRow(id) == [tmdb_id |-> id, k |-> 1]

\* C38: within one run of a Movieparse exactly one metadata fetch is
\* dispatched per ID of the lookup ID set and none for any other ID, also
\* when several mapping rows share a catalog ID through tmdb_id or
\* tmdb_id_man; the end of the batch appends at most one details row per
\* catalog ID, and none for an ID outside the lookup set.
C38_OneFetchPerId ==
    [][/\ (program' = "Movieparse"
              /\ pc' \in {"metadata", "parsed", "written"})
          => /\ metadata_lookup_ids' = MappingCatalogIds' \ default_codes
             /\ \A k \in 1..Len(sent') :
                   sent'[k].kind = "movie"
                       => sent'[k].tmdb_id \in metadata_lookup_ids'
             /\ \A id \in metadata_lookup_ids' :
                   Cardinality(FetchesOf(id)') = 1
       /\ (program = "Movieparse" /\ pc = "metadata" /\ pc' = "parsed")
          => \A r \in BagToSet(tables'["details"]) :
                /\ CopiesIn(r, tables'["details"])
                      <= CopiesIn(r, tables["details"]) + 1
                /\ CopiesIn(r, tables'["details"])
                      > CopiesIn(r, tables["details"])
                      => r.tmdb_id \in metadata_lookup_ids]_vars

\* A run has fetched the metadata of an id that two mapping rows share and
\* holds one details row for it.
C38_Witness ==
    /\ program = "Movieparse"
    /\ pc = "parsed"
    /\ \E i, j \in 1..Len(mapping) :
          /\ i # j
          /\ mapping[i].tmdb_id \notin default_codes
          /\ mapping[j].tmdb_id = mapping[i].tmdb_id
             \/ mapping[j].tmdb_id_man = mapping[i].tmdb_id
          /\ Cardinality(FetchesOf(mapping[i].tmdb_id)) = 1
          /\ CopiesIn(DetailsRow(mapping[i].tmdb_id), tables["details"]) = 1

\* C39: the constructor accepts a naming-convention selector if and only
\* if it is -1 or the key of one of the patterns of get_parsing_patterns:
\* the 'valid PARSING_STYLE' error is raised for no enumerated pattern, and
\* an instance exists only for -1 or an enumerated pattern.
C39_SelectorAccepted ==
    program = "Movieparse" =>
        /\ error = "please supply a valid PARSING_STYLE!"
              => args.parsing_style \notin PatternKeys \cup {-1}
        /\ pc = "ready"
              => args.parsing_style \in PatternKeys \cup {-1}

=============================================================================
